---- MODULE Spec2Model ----
(***************************************************************************)
(* wikiparse: the backtracking engine (Parser) and the wiki grammar        *)
(* (WikiParser), as a state machine over one parser instance.              *)
(*                                                                         *)
(* Strings are sequences of UTF-16 code units (integers), so that          *)
(* String.fromCharCode, toLowerCase and the prefix comparisons are         *)
(* computed and never assumed.  Every JavaScript value is a record with a  *)
(* field k: "null", "undefined", "false", "string" (field s), "list"       *)
(* (an array of values, field v), "array" (a sparse array: length and      *)
(* props) or "object" (a node: field type and its own fields).             *)
(*                                                                         *)
(* The engine's methods mutate the instance; here each method takes the    *)
(* instance p and returns [p |-> the instance after, r |-> its result].    *)
(* A thrown error is the field fault of the instance: once it is set every *)
(* method leaves the instance as it is (the stack unwinds to parse).       *)
(***************************************************************************)
EXTENDS Integers, Sequences, FiniteSets, TLC

VARIABLES
    options,   \* this.options
    inst,      \* the instance's mutable fields: str, lowercaseStr, pos, backtrackOn, backtrackingCount, stack
    pending,   \* the arguments of the parse calls still to be made
    calls,     \* number of parse calls made on the instance
    entry,     \* the instance's fields as the last parse call found them
    raised,    \* the error raised inside the last parse call's try block, or "none"
    returned,  \* what the last parse call returned (a value record), NotYet or Thrown
    thrown     \* the error the last parse call threw to its caller, or "none"

vars == <<options, inst, pending, calls, entry, raised, returned, thrown>>

----------------------------------------------------------------------------
(* Characters *)

Printable ==
    << " ", "!", "\"", "#", "$", "%", "&", "'", "(", ")", "*", "+", ",", "-", ".", "/",
       "0", "1", "2", "3", "4", "5", "6", "7", "8", "9", ":", ";", "<", "=", ">", "?",
       "@", "A", "B", "C", "D", "E", "F", "G", "H", "I", "J", "K", "L", "M", "N", "O",
       "P", "Q", "R", "S", "T", "U", "V", "W", "X", "Y", "Z", "[", "\\", "]", "^", "_",
       "a", "b", "c", "d", "e", "f", "g", "h", "i", "j", "k", "l", "m", "n", "o",
       "p", "q", "r", "s", "t", "u", "v", "w", "x", "y", "z", "{", "|", "}", "~" >>

\* The code unit of a one-character literal (U+0020..U+007E without U+0060).
Ord == [i \in 1..Len(Printable) |-> IF i <= 64 THEN i + 31 ELSE i + 32]
CodeOf == [c \in {Printable[i] : i \in 1..Len(Printable)} \cup {"\n", "\t"} |->
             IF c = "\n" THEN 10
             ELSE IF c = "\t" THEN 9
             ELSE Ord[CHOOSE i \in 1..Len(Printable) : Printable[i] = c]]

\* A string literal of the source, written as its characters.
U(s) == [i \in 1..Len(s) |-> CodeOf[s[i]]]

NBSP == 160
THINSP == 8201
MDASH == 8212
NDASH == 8211
MINUS == 8722
CAPITAL_I_DOT == 304
COMBINING_DOT == 775

\* c.toLowerCase() for one code unit c: a string of one unit, or of two for U+0130.
toLowerCase(c) ==
    IF c >= 65 /\ c <= 90 THEN <<c + 32>>
    ELSE IF c = CAPITAL_I_DOT THEN <<105, COMBINING_DOT>>
    ELSE <<c>>

\* White space of String.prototype.trim (ECMAScript WhiteSpace and LineTerminator).
IsWhiteSpace(c) ==
    \/ c \in {9, 10, 11, 12, 13, 32, NBSP, 5760, 8232, 8233, 8239, 8287, 12288, 65279}
    \/ (c >= 8192 /\ c <= 8202)

\* \w of a regular expression without the u flag.
IsWordChar(c) ==
    \/ (c >= 48 /\ c <= 57)
    \/ (c >= 65 /\ c <= 90)
    \/ (c >= 97 /\ c <= 122)
    \/ c = 95

RECURSIVE trimLeft(_)
trimLeft(s) == IF Len(s) > 0 /\ IsWhiteSpace(s[1]) THEN trimLeft(Tail(s)) ELSE s

RECURSIVE trimRight(_)
trimRight(s) ==
    IF Len(s) > 0 /\ IsWhiteSpace(s[Len(s)]) THEN trimRight(SubSeq(s, 1, Len(s) - 1)) ELSE s

strTrim(s) == trimRight(trimLeft(s))

strToLowerCase(s) ==
    LET RECURSIVE go(_)
        go(t) == IF Len(t) = 0 THEN <<>> ELSE toLowerCase(t[1]) \o go(Tail(t))
    IN go(s)

----------------------------------------------------------------------------
(* JavaScript values *)

Null == [k |-> "null"]
Undefined == [k |-> "undefined"]
False == [k |-> "false"]
Str(s) == [k |-> "string", s |-> s]
List(v) == [k |-> "list", v |-> v]
Obj(fields) == fields @@ [k |-> "object"]

IsNullish(x) == x.k \in {"null", "undefined"}      \* x == null
IsString(x) == x.k = "string"                      \* typeof x is string
\* const v = e; ...: the rest of a method body as F, applied to the value of e.
Let(e, F(_)) == F(e)

Truthy(x) ==
    CASE x.k \in {"null", "undefined", "false"} -> FALSE
      [] x.k = "string" -> Len(x.s) > 0
      [] OTHER -> TRUE

----------------------------------------------------------------------------
(* Parser: the instance and its cursor primitives (src/unnamed/part_000) *)

kDefaultOptions ==
    [backtrackingLimit |-> 50000, throwError |-> FALSE, returnError |-> FALSE, debug |-> FALSE]

Faulted(p) == p.fault # "none"

\* throw: the first error wins, the instance is left as it is.
Throw(p, err) == IF Faulted(p) THEN p ELSE [p EXCEPT !.fault = err]

SetPos(p, pos) == IF Faulted(p) THEN p ELSE [p EXCEPT !.pos = pos]

isStart(p) == p.pos.offset = 0

isEnd(p) == p.pos.offset >= Len(p.str)

isStartOfLine(p) ==
    \/ (Len(p.str) > 0 /\ p.pos.offset >= 1 /\ p.pos.offset - 1 < Len(p.str)
        /\ p.str[p.pos.offset] = 10)
    \/ isStart(p)

isEndOfLine(p) == isEnd(p) \/ p.str[p.pos.offset + 1] = 10

startsWith(p, prefix) ==
    \A i \in 1..Len(prefix) :
        /\ p.pos.offset + i <= Len(p.str)
        /\ p.lowercaseStr[p.pos.offset + i] = <<prefix[i]>>

startsWithAny(p, prefixes) == \E j \in 1..Len(prefixes) : startsWith(p, prefixes[j])

CountNewlines(chunk) == Cardinality({i \in 1..Len(chunk) : chunk[i] = 10})

advance(p, chunk) ==
    SetPos(p, [offset |-> p.pos.offset + Len(chunk),
               lineNumber |-> p.pos.lineNumber + CountNewlines(chunk)])

\* this.error(...): an Error carrying the annotated context stack.
error(p) == Throw(p, "ParseFailure")

eat(p, chunk, err) ==
    IF Faulted(p) THEN [p |-> p, r |-> FALSE]
    ELSE IF startsWith(p, chunk) THEN [p |-> advance(p, chunk), r |-> TRUE]
    ELSE IF err THEN [p |-> error(p), r |-> FALSE]
    ELSE [p |-> p, r |-> FALSE]

RECURSIVE eatAnyFrom(_, _, _, _)
eatAnyFrom(p, chunks, j, err) ==
    IF Faulted(p) THEN [p |-> p, r |-> FALSE]
    ELSE IF j > Len(chunks) THEN [p |-> IF err THEN error(p) ELSE p, r |-> FALSE]
    ELSE IF startsWith(p, chunks[j]) THEN [p |-> advance(p, chunks[j]), r |-> TRUE]
    ELSE eatAnyFrom(p, chunks, j + 1, err)

eatAny(p, chunks, err) == eatAnyFrom(p, chunks, 1, err)

RECURSIVE eatCountFrom(_, _, _)
eatCountFrom(p, chunk, count) ==
    IF ~Faulted(p) /\ startsWith(p, chunk)
    THEN eatCountFrom(advance(p, chunk), chunk, count + 1)
    ELSE [p |-> p, r |-> count]

eatCount(p, chunk) == eatCountFrom(p, chunk, 0)

RECURSIVE eatWhitespace(_, _)
eatWhitespace(p, newLine) ==
    Let(     eatAny(p, <<U(<<" ">>), U(<<"\t">>)>> \o (IF newLine THEN <<U(<<"\n">>)>> ELSE <<>>), FALSE), LAMBDA e :
       IF e.r THEN eatWhitespace(e.p, newLine) ELSE e.p)

\* A variant of the limit test that compares with >= instead of >.
BumpBacktrackingCountEarly(p) ==
    IF Faulted(p) THEN p
    ELSE Let(     [p EXCEPT !.backtrackingCount = @ + 1], LAMBDA q :
            IF q.backtrackingCount >= q.options.backtrackingLimit
            THEN Throw(q, "BacktrackingLimitExceeded")
            ELSE q)

\* ++this.backtrackingCount > this.options.backtrackingLimit: throw
BumpBacktrackingCount(p) ==
    IF Faulted(p) THEN p
    ELSE Let(     [p EXCEPT !.backtrackingCount = @ + 1], LAMBDA q :
            IF q.backtrackingCount > q.options.backtrackingLimit
            THEN Throw(q, "BacktrackingLimitExceeded")
            ELSE q)

PushBacktrackOn(p) == IF Faulted(p) THEN p ELSE [p EXCEPT !.backtrackOn = Append(@, "isEndOfLine")]

\* A variant of PopBacktrackOn that leaves the predicate on the stack.
PopBacktrackOnNone(p) == p

PopBacktrackOn(p) ==
    IF Faulted(p) \/ Len(p.backtrackOn) = 0 THEN p
    ELSE [p EXCEPT !.backtrackOn = SubSeq(@, 1, Len(@) - 1)]

PushStack(p) == IF Faulted(p) THEN p ELSE [p EXCEPT !.stack = Append(@, p.pos)]

PopStack(p) ==
    IF Faulted(p) \/ Len(p.stack) = 0 THEN p
    ELSE [p EXCEPT !.stack = SubSeq(@, 1, Len(@) - 1)]

\* str.substr(start, length)
substr(str, start, length) ==
    Let(        start + 1, LAMBDA from :
    Let(      IF start + length > Len(str) THEN Len(str) ELSE start + length, LAMBDA to :
       IF from > to THEN <<>> ELSE SubSeq(str, from, to)))

----------------------------------------------------------------------------
(* append and trim *)

\* A variant of appendOne that always pushes and never concatenates.
appendOnePush(content, chunk) == Append(content, chunk)

\* One iteration of the loop of append.
appendOne(content, chunk) ==
    IF IsString(chunk) /\ Len(content) > 0 /\ IsString(content[Len(content)])
    THEN [content EXCEPT ![Len(content)] = Str(@.s \o chunk.s)]
    ELSE Append(content, chunk)

RECURSIVE append(_, _)
append(content, chunks) ==
    IF Len(chunks) = 0 THEN content
    ELSE append(appendOne(content, chunks[1]), Tail(chunks))

trimFirst(v) ==
    IF IsString(v[1])
    THEN Let(     trimLeft(v[1].s), LAMBDA t :
            IF Len(t) = 0 THEN Tail(v) ELSE <<Str(t)>> \o Tail(v))
    ELSE v

trimLast(v) ==
    IF Len(v) > 0 /\ IsString(v[Len(v)])
    THEN Let(     trimRight(v[Len(v)].s), LAMBDA t :
            IF Len(t) = 0 THEN SubSeq(v, 1, Len(v) - 1) ELSE [v EXCEPT ![Len(v)] = Str(t)])
    ELSE v

trim(content) ==
    IF content.k # "list" THEN content
    ELSE IF Len(content.v) = 0 THEN content
    ELSE List(trimLast(trimFirst(content.v)))

----------------------------------------------------------------------------
(* Sparse arrays and objects used as maps *)

kEmptyArray == [k |-> "array", length |-> 0, props |-> <<>>]

\* a[i] = v: an element when i is an array index, a plain property otherwise.
ArraySet(a, i, v) ==
    [k |-> "array",
     length |-> IF i >= 0 /\ i + 1 > a.length THEN i + 1 ELSE a.length,
     props |-> (i :> v) @@ a.props]

ArrayPush(a, v) == ArraySet(a, a.length, v)

\* a.pop(): [a |-> the array after, r |-> the element removed]
ArrayPop(a) ==
    IF a.length = 0 THEN [a |-> a, r |-> Undefined]
    ELSE [a |-> [k |-> "array", length |-> a.length - 1,
                 props |-> [i \in DOMAIN a.props \ {a.length - 1} |-> a.props[i]]],
          r |-> IF (a.length - 1) \in DOMAIN a.props THEN a.props[a.length - 1] ELSE Undefined]

\* obj[name] = value
SetProperty(obj, name, value) == (name :> value) @@ obj

IsDigit(c) == c >= 48 /\ c <= 57

RECURSIVE DecimalValue(_, _)
DecimalValue(s, acc) ==
    IF Len(s) = 0 THEN acc ELSE DecimalValue(Tail(s), 10 * acc + (s[1] - 48))

\* The characters that, next to digits, make the other numeric literals of
\* ECMAScript (a fraction, an exponent, 0x.., 0o.., 0b.., Infinity).
OtherNumeric(s) ==
    /\ \E i \in 1..Len(s) : IsDigit(s[i]) \/ s[i] = 73
    /\ \E i \in 1..Len(s) : s[i] \in {46, 101, 69, 120, 88, 111, 79, 98, 66, 73}

\* Number(s) for a trimmed, non-empty string: [nan, value], or "unmodelled"
\* for the literals other than a signed decimal integer.
ToNumber(s) ==
    Let(          Len(s) > 0 /\ s[1] \in {43, 45}, LAMBDA signed :
    Let(          IF signed THEN Tail(s) ELSE s, LAMBDA digits :
       IF Len(digits) > 0 /\ \A i \in 1..Len(digits) : IsDigit(digits[i])
       THEN [kind |-> "number",
             value |-> IF signed /\ s[1] = 45 THEN 0 - DecimalValue(digits, 0)
                       ELSE DecimalValue(digits, 0)]
       ELSE IF OtherNumeric(s) THEN [kind |-> "unmodelled", value |-> 0]
       ELSE [kind |-> "NaN", value |-> 0]))

----------------------------------------------------------------------------
(* next: its options, and the grammar descriptors that node() hands to it *)

AllowAll == [any |-> TRUE, types |-> {}]           \* allow = null
Allow(types) == [any |-> FALSE, types |-> types]   \* allow = [...]
kEmpty == <<>>

\* The destructured parameters of next with their defaults; stop is a key the
\* callers pass and next does not read.
kNextDefaults ==
    [end |-> kEmpty, endAtEos |-> FALSE, notEnd |-> kEmpty, endBefore |-> kEmpty,
     backtrack |-> kEmpty, allow |-> AllowAll, disallow |-> {}, backtrackOn |-> FALSE,
     stop |-> kEmpty]

\* The parameter object of next after destructuring.
nextOptions(opts) == opts @@ kNextDefaults

\* A grammar descriptor: the keys node() reads, absent ones falsy.
kDescriptorDefaults ==
    [type |-> "", start |-> kEmpty, keepStart |-> FALSE, preCondition |-> "none",
     postCondition |-> "none", group |-> "none", func |-> "none", replaceWith |-> kEmpty,
     postProcess |-> "none"] @@ kNextDefaults

D(fields) == fields @@ kDescriptorDefaults

TypeOf(x) == IF x.k = "object" /\ "type" \in DOMAIN x THEN x.type ELSE ""

----------------------------------------------------------------------------
(* The grammar table of the WikiParser constructor.  func, preCondition,   *)
(* postCondition and postProcess name the closure of the descriptor.       *)

htmlEntities == <<
    D([type |-> "nbsp", start |-> U(<<"n", "b", "s", "p", ";">>), replaceWith |-> <<NBSP>>]),
    D([type |-> "lt", start |-> U(<<"l", "t", ";">>), replaceWith |-> U(<<"<">>)]),
    D([type |-> "gt", start |-> U(<<"g", "t", ";">>), replaceWith |-> U(<<">">>)]),
    D([type |-> "mdash", start |-> U(<<"m", "d", "a", "s", "h", ";">>), replaceWith |-> <<MDASH>>]),
    D([type |-> "ndash", start |-> U(<<"n", "d", "a", "s", "h", ";">>), replaceWith |-> <<NDASH>>]),
    D([type |-> "minus", start |-> U(<<"m", "i", "n", "u", "s", ";">>), replaceWith |-> <<MINUS>>]),
    D([type |-> "thinsp", start |-> U(<<"t", "h", "i", "n", "s", "p", ";">>), replaceWith |-> <<THINSP>>]),
    D([type |-> "htmlEntity", start |-> U(<<"#">>), func |-> "htmlEntity"]) >>

tags == <<
    D([type |-> "comment", start |-> U(<<"<", "!", "-", "-">>), end |-> <<U(<<"-", "-", ">">>)>>,
       allow |-> Allow({}), postProcess |-> "comment"]),
    D([type |-> "lineBreak", start |-> U(<<"<", "b", "r">>), postCondition |-> "isAfterTagName",
       end |-> <<U(<<">">>)>>, postProcess |-> "lineBreak"]),
    D([type |-> "hr", start |-> U(<<"<", "h", "r">>), keepStart |-> TRUE, func |-> "hr"]),
    D([type |-> "source", start |-> U(<<"<", "s", "o", "u", "r", "c", "e">>), keepStart |-> TRUE,
       func |-> "source"]),
    D([type |-> "math", start |-> U(<<"<", "m", "a", "t", "h">>), keepStart |-> TRUE, func |-> "math"]),
    D([type |-> "ref", start |-> U(<<"<", "r", "e", "f">>), keepStart |-> TRUE, func |-> "ref"]),
    D([type |-> "nowiki", start |-> U(<<"<", "n", "o", "w", "i", "k", "i">>), keepStart |-> TRUE,
       func |-> "nowiki", postProcess |-> "nowiki"]),
    D([type |-> "pre", start |-> U(<<"<", "p", "r", "e">>), keepStart |-> TRUE, func |-> "pre"]),
    D([type |-> "syntaxhighlight",
       start |-> U(<<"<", "s", "y", "n", "t", "a", "x", "h", "i", "g", "h", "l", "i", "g", "h", "t">>),
       keepStart |-> TRUE, func |-> "syntaxhighlight"]),
    D([type |-> "code", start |-> U(<<"<", "c", "o", "d", "e">>), keepStart |-> TRUE, func |-> "code"]),
    D([type |-> "gallery", start |-> U(<<"<", "g", "a", "l", "l", "e", "r", "y">>),
       postCondition |-> "isAfterTagName", func |-> "gallery"]),
    D([type |-> "tag", start |-> U(<<"<">>), keepStart |-> TRUE, func |-> "tag"]) >>

grammar == <<
    D([type |-> "link", start |-> U(<<"[", "[">>), func |-> "link"]),
    D([type |-> "externalLink", start |-> U(<<"[">>), postCondition |-> "uriScheme",
       func |-> "externalLink"]),
    D([type |-> "boldItalics", start |-> U(<<"'", "'", "'", "'", "'">>),
       end |-> <<U(<<"'", "'", "'", "'", "'">>)>>, stop |-> <<U(<<"]", "]">>)>>, backtrackOn |-> TRUE]),
    D([type |-> "bold", start |-> U(<<"'", "'", "'">>), end |-> <<U(<<"'", "'", "'">>)>>,
       stop |-> <<U(<<"]", "]">>)>>, backtrackOn |-> TRUE]),
    D([type |-> "italics", start |-> U(<<"'", "'">>), end |-> <<U(<<"'", "'">>)>>,
       notEnd |-> <<U(<<"'", "'", "'">>)>>, stop |-> <<U(<<"]", "]">>)>>,
       disallow |-> {"preformatted"}, backtrackOn |-> TRUE]),
    D([type |-> "template", start |-> U(<<"{", "{">>), func |-> "template"]),
    D([type |-> "templatePreformatted", start |-> U(<<"{", "{">>), func |-> "templatePreformatted",
       postProcess |-> "templatePreformatted"]),
    D([type |-> "unorderedList", start |-> U(<<"*">>), keepStart |-> TRUE,
       preCondition |-> "isStartOfLine", func |-> "unorderedList"]),
    D([type |-> "orderedList", start |-> U(<<"#">>), keepStart |-> TRUE,
       preCondition |-> "isStartOfLine", func |-> "orderedList"]),
    D([type |-> "indent", start |-> U(<<":">>), keepStart |-> TRUE,
       preCondition |-> "isStartOfLine", func |-> "indent"]),
    D([type |-> "description", start |-> U(<<";">>), preCondition |-> "isStartOfLine",
       func |-> "description"]),
    D([type |-> "heading", start |-> U(<<"=">>), keepStart |-> TRUE,
       preCondition |-> "isStartOfLine", func |-> "heading"]),
    D([start |-> U(<<"&">>), group |-> "htmlEntities"]),
    D([type |-> "toc", start |-> U(<<"_", "_", "T", "O", "C", "_", "_">>), end |-> <<kEmpty>>]),
    D([type |-> "notoc", start |-> U(<<"_", "_", "N", "O", "T", "O", "C", "_", "_">>),
       end |-> <<kEmpty>>]),
    D([type |-> "preformatted", start |-> U(<<" ">>), keepStart |-> TRUE,
       preCondition |-> "isStartOfLine", func |-> "preformatted"]),
    D([start |-> U(<<"<">>), keepStart |-> TRUE, group |-> "tags"]),
    D([type |-> "table", start |-> U(<<"{", "|">>), func |-> "table"]),
    D([type |-> "horizontalRule", start |-> U(<<"-", "-", "-", "-">>),
       preCondition |-> "isStartOfLine"]) >>

groupOf(name) == IF name = "htmlEntities" THEN htmlEntities ELSE tags

RECURSIVE next(_, _)
RECURSIVE node(_, _, _, _)

----------------------------------------------------------------------------
(* WikiParser: the productions (src/wikiparser.js) *)

\* nameContent[0].trim().toLowerCase(): a TypeError when the part is a node
nameOf(part) == strToLowerCase(strTrim(part.s))

\* nameContent && nameContent.length
keyed(nameContent) == Truthy(nameContent) /\ Len(nameContent.v) > 0

\* The locals of the parameter loops of template and link after a pass: more
\* is FALSE once a pass has thrown.
Parameters(p, parameters, positionalParameters, more) ==
    [p |-> p, parameters |-> parameters, positionalParameters |-> positionalParameters,
     more |-> more]

\* if (isNaN(name)) parameters[name] = value; else positionalParameters[name - 1] = value,
\* v being what next returned for the value.
keyedParameter(v, name, parameters, positionalParameters) ==
    CASE ToNumber(name).kind = "unmodelled" ->
            Parameters(Throw(v.p, "Unmodelled"), parameters, positionalParameters, FALSE)
      [] ToNumber(name).kind = "NaN" ->
            Parameters(v.p, SetProperty(parameters, name, trim(v.r)), positionalParameters, TRUE)
      [] ToNumber(name).kind = "number" ->
            Parameters(v.p, parameters,
                       ArraySet(positionalParameters, ToNumber(name).value - 1, trim(v.r)), TRUE)

\* positionalParameters.push(this.trim(this.next(...))), v being what next returned.
positionalParameter(v, parameters, positionalParameters) ==
    Parameters(v.p, parameters, ArrayPush(positionalParameters, trim(v.r)), TRUE)

\* The argument of next for the value of a template parameter.
templateValue(allow) ==
    [endBefore |-> <<U(<<"|">>), U(<<"}", "}">>)>>, allow |-> allow, disallow |-> {"preformatted"}]

\* The body of the while loop of template, p being this after eat('|').
templateParameter(p, allow, parameters, positionalParameters) ==
    Let(next(p, [end |-> <<U(<<"=">>)>>,
                 stop |-> <<U(<<"|">>), U(<<"{", "{">>), U(<<"}", "}">>), U(<<"<">>)>>,
                 allow |-> Allow({"comment"}), backtrackOn |-> TRUE]), LAMBDA nameContent :
       IF keyed(nameContent.r) /\ ~IsString(nameContent.r.v[1])
       THEN Parameters(Throw(nameContent.p, "TypeError"), parameters, positionalParameters, FALSE)
       ELSE IF keyed(nameContent.r) /\ Len(nameOf(nameContent.r.v[1])) > 0
       THEN keyedParameter(next(nameContent.p, templateValue(allow)),
                           nameOf(nameContent.r.v[1]), parameters, positionalParameters)
       ELSE positionalParameter(next(SetPos(nameContent.p, p.pos), templateValue(allow)),
                                parameters, positionalParameters))

\* while (this.eat('|', false)) of template, s being the locals a pass left.
RECURSIVE templateParameters(_, _)
templateParameters(s, allow) ==
    IF s.more /\ eat(s.p, U(<<"|">>), FALSE).r
    THEN templateParameters(templateParameter(eat(s.p, U(<<"|">>), FALSE).p, allow,
                                              s.parameters, s.positionalParameters), allow)
    ELSE s

\* nameContentRaw.filter(part => part.type !== 'comment')
withoutComments(v) == SelectSeq(v, LAMBDA part : TypeOf(part) # "comment")

\* The statements of template from the loop on, name being the name found.
templateFrom(p, allow, name) ==
    Let(templateParameters(Parameters(eatWhitespace(p, TRUE), <<>>, kEmptyArray, TRUE),
                           IF name = U(<<"c", "o", "d", "e">>) THEN Allow({}) ELSE allow),
        LAMBDA ps :
       IF ps.p.fault # "none" \/ ~eat(ps.p, U(<<"}", "}">>), FALSE).r THEN [p |-> ps.p, r |-> Null]
       ELSE [p |-> eat(ps.p, U(<<"}", "}">>), FALSE).p,
             r |-> Obj([name |-> Str(name), parameters |-> ps.parameters,
                        positionalParameters |-> ps.positionalParameters])])

template(p, allowArg) ==
    Let(next(p, [endBefore |-> <<U(<<"|">>), U(<<"}", "}">>)>>,
                 allow |-> Allow({"comment", "template"})]), LAMBDA nameContentRaw :
       IF ~Truthy(nameContentRaw.r) \/ Len(withoutComments(nameContentRaw.r.v)) = 0
       THEN [p |-> nameContentRaw.p, r |-> Null]
       ELSE IF ~IsString(withoutComments(nameContentRaw.r.v)[1])
       THEN [p |-> Throw(nameContentRaw.p, "TypeError"), r |-> Null]
       ELSE IF Len(nameOf(withoutComments(nameContentRaw.r.v)[1])) = 0
       THEN [p |-> nameContentRaw.p, r |-> Null]
       ELSE templateFrom(nameContentRaw.p, allowArg, nameOf(withoutComments(nameContentRaw.r.v)[1])))

\* The argument of next for the value of a link parameter.
kLinkValue == [endBefore |-> <<U(<<"|">>), U(<<"]", "]">>)>>, disallow |-> {"preformatted"}]

\* The body of the while loop of link, p being this after eat('|').
linkParameter(p, parameters, positionalParameters) ==
    Let(next(p, [end |-> <<U(<<"=">>)>>,
                 stop |-> <<U(<<"|">>), U(<<"[", "[">>), U(<<"]", "]">>), U(<<"<">>)>>,
                 allow |-> Allow({"comment"}), backtrackOn |-> TRUE]), LAMBDA nameContent :
       IF keyed(nameContent.r) /\ ~IsString(nameContent.r.v[1])
       THEN Parameters(Throw(nameContent.p, "TypeError"), parameters, positionalParameters, FALSE)
       ELSE IF keyed(nameContent.r) /\ Len(nameOf(nameContent.r.v[1])) > 0
       THEN keyedParameter(next(nameContent.p, kLinkValue),
                           nameOf(nameContent.r.v[1]), parameters, positionalParameters)
       ELSE positionalParameter(next(SetPos(nameContent.p, p.pos), kLinkValue),
                                parameters, positionalParameters))

\* while (this.eat('|', false)) of link, s being the locals a pass left.
RECURSIVE linkParameters(_)
linkParameters(s) ==
    IF s.more /\ eat(s.p, U(<<"|">>), FALSE).r
    THEN linkParameters(linkParameter(eat(s.p, U(<<"|">>), FALSE).p,
                                      s.parameters, s.positionalParameters))
    ELSE s

\* s.split('#'): the first two segments
IndexOfHash(s) == IF \E i \in 1..Len(s) : s[i] = 35
                  THEN CHOOSE i \in 1..Len(s) : s[i] = 35 /\ \A j \in 1..(i - 1) : s[j] # 35
                  ELSE 0

splitTo(s) == IF IndexOfHash(s) = 0 THEN s ELSE SubSeq(s, 1, IndexOfHash(s) - 1)

splitAnchor(s) ==
    IF IndexOfHash(s) = 0 THEN Undefined
    ELSE Let(        SubSeq(s, IndexOfHash(s) + 1, Len(s)), LAMBDA rest :
            Str(splitTo(rest)))

\* A variant of linkTrail that leaves the text behind the link where it is.
linkTrailLeft(p, content) == [p |-> p, r |-> content]

\* The link trail: while (!this.isEnd() && this.str[this.pos.offset].match(/^\w/))
RECURSIVE linkTrail(_, _)
linkTrail(p, content) ==
    IF Faulted(p) \/ isEnd(p) \/ ~IsWordChar(p.str[p.pos.offset + 1])
    THEN [p |-> p, r |-> content]
    ELSE IF content.k # "list"
    THEN [p |-> Throw(advance(p, <<p.str[p.pos.offset + 1]>>), "TypeError"), r |-> content]
    ELSE linkTrail(advance(p, <<p.str[p.pos.offset + 1]>>),
                   List(append(content.v, <<Str(<<p.str[p.pos.offset + 1]>>)>>)))

\* The statements of link after the test of page.length, text being
\* page[0].trim(): the node, and the link trail appended to its content.
linkNode(p, text, parameters, content, positionalParameters) ==
    Let(linkTrail(p, content), LAMBDA trail :
       [p |-> trail.p,
        r |-> Obj((IF Truthy(splitAnchor(text)) THEN [anchor |-> splitAnchor(text)] ELSE <<>>)
                  @@ (IF Cardinality(DOMAIN parameters) > 0
                      THEN [parameters |-> parameters] ELSE <<>>)
                  @@ (IF positionalParameters.length > 0
                      THEN [positionalParameters |-> positionalParameters] ELSE <<>>)
                  @@ [to |-> Str(splitTo(text)), content |-> trail.r])])

\* The statements of link from the loop on, page being what next returned.
linkFrom(page, ps) ==
    IF ps.p.fault # "none" THEN [p |-> ps.p, r |-> Null]
    ELSE IF ~eat(ps.p, U(<<"]", "]">>), FALSE).r THEN [p |-> ps.p, r |-> False]
    ELSE IF Len(page.v) = 0 THEN [p |-> eat(ps.p, U(<<"]", "]">>), FALSE).p, r |-> Null]
    ELSE IF ~IsString(page.v[1])
    THEN [p |-> Throw(eat(ps.p, U(<<"]", "]">>), FALSE).p, "TypeError"), r |-> Null]
    ELSE linkNode(eat(ps.p, U(<<"]", "]">>), FALSE).p, strTrim(page.v[1].s), ps.parameters,
                  IF ps.positionalParameters.length > 0 THEN ArrayPop(ps.positionalParameters).r
                  ELSE List(<<Str(splitTo(strTrim(page.v[1].s)))>>),
                  IF ps.positionalParameters.length > 0 THEN ArrayPop(ps.positionalParameters).a
                  ELSE ps.positionalParameters)

link(p) ==
    Let(next(p, [endBefore |-> <<U(<<"|">>), U(<<"]", "]">>)>>, allow |-> Allow({"nbsp"}),
                 backtrackOn |-> TRUE]), LAMBDA page :
       IF ~Truthy(page.r) THEN [p |-> page.p, r |-> Null]
       ELSE linkFrom(page.r, linkParameters(Parameters(page.p, <<>>, kEmptyArray, TRUE))))

\* uri.filter(part => typeof part === 'string').join('')
RECURSIVE joinStrings(_)
joinStrings(v) ==
    IF Len(v) = 0 THEN <<>>
    ELSE (IF IsString(v[1]) THEN v[1].s ELSE <<>>) \o joinStrings(Tail(v))

externalLink(p) ==
    Let(       next(p, [end |-> <<U(<<" ">>), U(<<"\t">>)>>, endBefore |-> <<U(<<"]">>)>>,
                        allow |-> Allow({"comment"})]), LAMBDA uri :
    Let(     next(uri.p, [end |-> <<U(<<"]">>)>>, backtrackOn |-> TRUE]), LAMBDA c :
    Let(           IF Truthy(trim(c.r)) THEN trim(c.r) ELSE List(<<>>), LAMBDA content :
       IF ~Truthy(uri.r) THEN [p |-> uri.p, r |-> Null]
       ELSE [p |-> c.p, r |-> Obj([uri |-> Str(joinStrings(uri.r.v)), content |-> content])])))

kLineOpts == [end |-> <<U(<<"\n">>)>>, endAtEos |-> TRUE,
              endBefore |-> <<U(<<"}", "}">>), U(<<"<", "/">>)>>]

\* The locals of a loop after a pass through its body: more is FALSE once
\* the loop is left from inside the body, failed is TRUE where the method
\* returns null or throws.
Rows(p, content, more, failed) ==
    [p |-> p, content |-> content, more |-> more, failed |-> failed]

\* One pass through the while loop of indent.
indentPass(p, items) ==
    Let(         eatCount(p, U(<<":">>)), LAMBDA level :
    Let(     next(level.p, kLineOpts), LAMBDA c :
       Rows(c.p, Append(items, Obj([level |-> level.r, content |-> trim(c.r)])), TRUE, FALSE)))

RECURSIVE indentFrom(_, _, _)
indentFrom(p, start, items) ==
    IF ~Faulted(p) /\ (start \/ isStartOfLine(p)) /\ startsWith(p, U(<<":">>))
    THEN Let(indentPass(p, items), LAMBDA s : indentFrom(s.p, start, s.content))
    ELSE [p |-> p, r |-> Obj([items |-> List(items)])]

indent(p, start) == indentFrom(p, start, <<>>)

\* One pass through the while loop of list.
listPass(p, character, items) ==
    Let(         eatCount(p, character), LAMBDA level :
    Let(          startsWith(level.p, U(<<":">>)), LAMBDA nested :
    Let(       indent(level.p, TRUE), LAMBDA ind :
    Let(           IF nested THEN append(<<>>, <<ind.r @@ [type |-> "indent"]>>) ELSE <<>>, LAMBDA content :
    Let(     next(IF nested THEN ind.p ELSE level.p, kLineOpts), LAMBDA c :
       IF Faulted(c.p) THEN Rows(c.p, items, FALSE, TRUE)
       ELSE IF c.r.k # "list" THEN Rows(Throw(c.p, "TypeError"), items, FALSE, TRUE)
       ELSE Rows(c.p, Append(items, Obj([level |-> level.r,
                                         content |-> trim(List(append(content, c.r.v)))])),
                 TRUE, FALSE))))))

RECURSIVE listFrom(_, _, _)
listFrom(p, character, items) ==
    IF ~Faulted(p) /\ isStartOfLine(p) /\ startsWith(p, character)
    THEN Let(listPass(p, character, items), LAMBDA s :
            IF s.failed THEN [p |-> s.p, r |-> Null] ELSE listFrom(s.p, character, s.content))
    ELSE [p |-> p, r |-> Obj([items |-> List(items)])]

list(p, character) == listFrom(p, character, <<>>)

description(p) ==
    Let(     next(p, [end |-> <<U(<<"\n">>)>>, endAtEos |-> TRUE, endBefore |-> <<U(<<":">>)>>]), LAMBDA t :
    Let(         trim(t.r), LAMBDA title :
    Let(         eat(t.p, U(<<":">>), FALSE), LAMBDA colon :
    Let(     next(colon.p, [end |-> <<U(<<"\n">>)>>, endAtEos |-> TRUE]), LAMBDA c :
       IF IsNullish(title) THEN [p |-> t.p, r |-> Null]
       ELSE IF colon.r THEN [p |-> c.p, r |-> Obj([title |-> title, content |-> trim(c.r)])]
       ELSE [p |-> colon.p, r |-> Obj([title |-> title, content |-> List(<<>>)])]))))

\* '='.repeat(level)
repeat(c, n) == [i \in 1..n |-> c]

heading(p) ==
    Let(         eatCount(p, U(<<"=">>)), LAMBDA level :
    Let(     next(level.p, [endBefore |-> <<U(<<"=">>)>>, backtrackOn |-> TRUE]), LAMBDA c :
    Let(         eat(c.p, repeat(61, level.r), FALSE), LAMBDA close :
    Let(      eat(close.p, U(<<"\n">>), FALSE), LAMBDA nl :
       IF ~close.r THEN [p |-> close.p, r |-> Null]
       ELSE [p |-> nl.p, r |-> Obj([level |-> level.r, content |-> trim(c.r)])]))))

\* One pass through the while loop of preformatted.
preformattedPass(p, content) ==
    Let(      eat(p, U(<<" ">>), TRUE), LAMBDA sp :
    Let(        next(sp.p, [end |-> <<U(<<"\n">>)>>, endAtEos |-> TRUE,
                            allow |-> Allow({"lineBreak", "templatePreformatted", "comment",
                                             "link", "bold", "italics"})]), LAMBDA rich :
    Let(         next(rich.p, [end |-> <<U(<<"\n">>)>>, endAtEos |-> TRUE, allow |-> Allow({})]), LAMBDA plain :
    Let(        IF IsNullish(rich.r) THEN plain ELSE rich, LAMBDA line :
       IF Faulted(line.p) THEN Rows(line.p, content, FALSE, TRUE)
       ELSE IF line.r.k # "list" THEN Rows(Throw(line.p, "TypeError"), content, FALSE, TRUE)
       ELSE Rows(line.p, append(content, line.r.v \o <<Str(U(<<"\n">>))>>), TRUE, FALSE)))))

RECURSIVE preformattedFrom(_, _)
preformattedFrom(p, content) ==
    IF ~Faulted(p) /\ isStartOfLine(p) /\ startsWith(p, U(<<" ">>))
    THEN Let(preformattedPass(p, content), LAMBDA s :
            IF s.failed THEN [p |-> s.p, r |-> Null] ELSE preformattedFrom(s.p, s.content))
    ELSE [p |-> p, r |-> List(content)]

preformatted(p) == preformattedFrom(p, <<>>)

----------------------------------------------------------------------------
(* Numeric entities *)

\* String(x) of an element of an array, as Array.prototype.join sees it
elementToString(x) ==
    CASE x.k = "string" -> x.s
      [] x.k \in {"null", "undefined"} -> <<>>
      [] OTHER -> U(<<"[", "o", "b", "j", "e", "c", "t", " ", "O", "b", "j", "e", "c", "t", "]">>)

\* String(array): the elements joined by ','
RECURSIVE arrayToString(_)
arrayToString(v) ==
    IF Len(v) = 0 THEN <<>>
    ELSE IF Len(v) = 1 THEN elementToString(v[1])
    ELSE elementToString(v[1]) \o U(<<",">>) \o arrayToString(Tail(v))

DigitValue(c) ==
    IF c >= 48 /\ c <= 57 THEN c - 48
    ELSE IF c >= 97 /\ c <= 122 THEN c - 87
    ELSE IF c >= 65 /\ c <= 90 THEN c - 55
    ELSE 99

RECURSIVE parseDigits(_, _, _, _)
parseDigits(s, radix, acc, seen) ==
    IF Len(s) > 0 /\ DigitValue(s[1]) < radix
    THEN parseDigits(Tail(s), radix, acc * radix + DigitValue(s[1]), TRUE)
    ELSE [nan |-> ~seen, value |-> acc]

\* parseInt(s, radix) for radix 10 or 16
parseInt(s, radix) ==
    Let(     trimLeft(s), LAMBDA t :
    Let(          Len(t) > 0 /\ t[1] \in {43, 45}, LAMBDA signed :
    Let(     IF signed THEN Tail(t) ELSE t, LAMBDA u :
    Let(     IF radix = 16 /\ Len(u) >= 2 /\ u[1] = 48 /\ u[2] \in {120, 88}
             THEN Tail(Tail(u)) ELSE u, LAMBDA w :
    Let(     parseDigits(w, radix, 0, FALSE), LAMBDA n :
       [nan |-> n.nan, value |-> IF signed /\ t[1] = 45 THEN 0 - n.value ELSE n.value])))))

\* String.fromCharCode(n): ToUint16
fromCharCode(n) == IF n.nan THEN <<0>> ELSE <<n.value % 65536>>

htmlEntity(p) ==
    Let(         eat(p, U(<<"x">>), FALSE), LAMBDA isHex :
    Let(          next(isHex.p, [end |-> <<U(<<";">>)>>, backtrackOn |-> TRUE]), LAMBDA digits :
       IF ~Truthy(digits.r) THEN [p |-> digits.p, r |-> Null]
       ELSE [p |-> digits.p,
             r |-> Str(fromCharCode(parseInt(arrayToString(digits.r.v),
                                             IF isHex.r THEN 16 ELSE 10)))]))

----------------------------------------------------------------------------
(* Tags, attributes, tables, galleries *)

True == [k |-> "true"]

isAfterTagName(p) ==
    startsWithAny(p, <<U(<<" ">>), U(<<">">>), U(<<"/", ">">>), U(<<"/", " ", ">">>), U(<<"\t">>)>>)

quotedString(p, closeQuoteOnNewline) ==
    Let(     eat(p, U(<<"\"">>), TRUE), LAMBDA q :
    Let(           next(q.p, [end |-> <<U(<<"\"">>)>>,
                              endBefore |-> IF closeQuoteOnNewline THEN <<U(<<"\n">>)>> ELSE kEmpty,
                              stop |-> IF closeQuoteOnNewline THEN kEmpty ELSE <<U(<<"\n">>)>>,
                              allow |-> Allow({})]), LAMBDA content :
       [p |-> content.p,
        r |-> IF IsNullish(content.r) THEN Null
              ELSE IF Len(content.r.v) > 0 /\ Truthy(content.r.v[1]) THEN content.r.v[1]
              ELSE Str(<<>>)]))

\* The property key an attribute name becomes
propertyKey(x) == elementToString(x)

\* let value: the quoted string, or the first element of an unquoted run.
attributeValue(p, endBefore, closeQuoteOnNewline) ==
    IF startsWith(p, U(<<"\"">>)) THEN quotedString(p, closeQuoteOnNewline)
    ELSE Let(next(p, [end |-> <<U(<<" ">>), U(<<"\t">>)>>, endBefore |-> endBefore]), LAMBDA bare :
            [p |-> bare.p,
             r |-> IF Truthy(bare.r)
                   THEN (IF Len(bare.r.v) > 0 THEN bare.r.v[1] ELSE Undefined)
                   ELSE Null])

\* One pass through the while loop of attributes.
attributesPass(p, endBefore, closeQuoteOnNewline, attrs) ==
    Let(next(eatWhitespace(p, FALSE),
             [end |-> <<U(<<" ">>), U(<<"\t">>)>>, endBefore |-> endBefore \o <<U(<<"=">>)>>]),
        LAMBDA n :
    Let(eat(eatWhitespace(n.p, FALSE), U(<<"=">>), FALSE), LAMBDA eq :
       IF IsNullish(trim(n.r)) \/ Len(trim(n.r).v) = 0
       THEN Rows(eatWhitespace(n.p, FALSE), attrs, FALSE, FALSE)
       ELSE IF ~eq.r
       THEN Rows(eq.p, SetProperty(attrs, propertyKey(trim(n.r).v[1]), True), TRUE, FALSE)
       ELSE Let(attributeValue(eatWhitespace(eq.p, FALSE), endBefore, closeQuoteOnNewline),
                LAMBDA value :
               IF IsNullish(value.r) THEN Rows(value.p, attrs, FALSE, FALSE)
               ELSE Rows(value.p, SetProperty(attrs, propertyKey(trim(n.r).v[1]), value.r),
                         TRUE, FALSE))))

\* The while loop of attributes.
RECURSIVE attributesFrom(_, _, _, _)
attributesFrom(p, endBefore, closeQuoteOnNewline, attrs) ==
    IF Faulted(p) \/ isEnd(p) \/ startsWithAny(p, endBefore) THEN [p |-> p, r |-> attrs]
    ELSE Let(attributesPass(p, endBefore, closeQuoteOnNewline, attrs), LAMBDA s :
            IF s.more THEN attributesFrom(s.p, endBefore, closeQuoteOnNewline, s.content)
            ELSE [p |-> s.p, r |-> s.content])

attributes(p, endBefore, closeQuoteOnNewline) ==
    attributesFrom(eatWhitespace(p, FALSE), endBefore, closeQuoteOnNewline, <<>>)

\* The parameter object of tag() with its defaults
kTagDefaults ==
    [only |-> AllowAll, hasContent |-> TRUE, type |-> "tag", allow |-> AllowAll,
     disallow |-> {"preformatted"}, endBefore |-> <<U(<<"\n", "|">>), U(<<"\n", "!">>)>>,
     trim |-> TRUE]

IsTagNameStart(c) == (c >= 97 /\ c <= 122) \/ (c >= 65 /\ c <= 90) \/ c = 45

\* The node a tag becomes: a generic tag carries its name.
tagNode(o, name, fields) == Obj(IF o.type = "tag" THEN [name |-> Str(name)] @@ fields ELSE fields)

\* A variant of tagClose that takes a missing closing tag for a failure.
tagCloseRequired(p, name, result) ==
    IF eat(p, U(<<"<", "/">>) \o name \o U(<<">">>), FALSE).r
    THEN [p |-> eat(p, U(<<"<", "/">>) \o name \o U(<<">">>), FALSE).p, r |-> result]
    ELSE [p |-> p, r |-> Null]

\* The statements of tag after content == null was tested: the closing tag,
\* which may be missing, and the node.
tagClose(p, name, result) ==
    IF isEnd(p) \/ eat(p, U(<<"<", "/">>) \o name \o U(<<">">>), FALSE).r
    THEN [p |-> eat(p, U(<<"<", "/">>) \o name \o U(<<">">>), FALSE).p, r |-> result]
    ELSE IF ~eat(p, U(<<"<", "/">>) \o name, FALSE).r THEN [p |-> p, r |-> result]
    ELSE IF ~eat(eatWhitespace(eat(p, U(<<"<", "/">>) \o name, FALSE).p, TRUE), U(<<">">>), FALSE).r
    THEN [p |-> eatWhitespace(eat(p, U(<<"<", "/">>) \o name, FALSE).p, TRUE), r |-> Null]
    ELSE [p |-> eat(eatWhitespace(eat(p, U(<<"<", "/">>) \o name, FALSE).p, TRUE),
                    U(<<">">>), FALSE).p,
          r |-> result]

\* The statements of tag from the trim of content on, c being what next returned.
tagContent(c, o, name, attrs) ==
    IF IsNullish(c.r) THEN [p |-> c.p, r |-> Null]
    ELSE tagClose(c.p, name,
                  tagNode(o, name, [type |-> o.type,
                                    content |-> IF o.trim THEN trim(c.r) ELSE c.r,
                                    attributes |-> attrs]))

\* The statements of tag after its attributes were read.
tagOpen(attrs, o, name) ==
    IF eatAny(attrs.p, <<U(<<"/", ">">>), U(<<"/", " ", ">">>)>>, FALSE).r
    THEN [p |-> eatAny(attrs.p, <<U(<<"/", ">">>), U(<<"/", " ", ">">>)>>, FALSE).p,
          r |-> tagNode(o, name, [type |-> o.type, attributes |-> attrs.r, selfClosing |-> True])]
    ELSE IF ~eat(attrs.p, U(<<">">>), FALSE).r THEN [p |-> attrs.p, r |-> Null]
    ELSE IF ~o.hasContent
    THEN [p |-> eat(attrs.p, U(<<">">>), FALSE).p,
          r |-> tagNode(o, name, [type |-> o.type, attributes |-> attrs.r])]
    ELSE tagContent(next(eat(attrs.p, U(<<">">>), FALSE).p,
                         [endAtEos |-> TRUE,
                          endBefore |-> o.endBefore \o <<U(<<"<", "/">>) \o name, U(<<"]", "]">>),
                                                         U(<<"}", "}">>)>>,
                          allow |-> o.allow, disallow |-> o.disallow]),
                    o, name, attrs.r)

\* The statements of tag after the name was read, t being what next returned.
tagName(t, o) ==
    IF ~Truthy(t.r) THEN [p |-> t.p, r |-> Null]
    ELSE IF Len(t.r.v) = 0 \/ ~IsString(t.r.v[1]) THEN [p |-> t.p, r |-> Null]
    ELSE IF \/ Len(strToLowerCase(t.r.v[1].s)) = 0
            \/ ~isAfterTagName(t.p)
            \/ (~o.only.any /\ strToLowerCase(t.r.v[1].s) \notin o.only.types)
    THEN [p |-> t.p, r |-> Null]
    ELSE tagOpen(attributes(t.p, <<U(<<"/", ">">>), U(<<"/", " ", ">">>), U(<<">">>)>>, FALSE),
                 o, strToLowerCase(t.r.v[1].s))

\* The statements of tag after this.eat('<').
tagStart(p, o) ==
    IF Faulted(p) THEN [p |-> p, r |-> Null]
    ELSE IF isEnd(p) \/ ~IsTagNameStart(p.str[p.pos.offset + 1]) THEN [p |-> p, r |-> Null]
    ELSE tagName(next(p, [endBefore |-> <<U(<<" ">>), U(<<"\t">>), U(<<">">>), U(<<"/">>)>>,
                          backtrackOn |-> TRUE]), o)

tag(p, opts) == tagStart(eat(p, U(<<"<">>), TRUE).p, opts @@ kTagDefaults)

\* One pass through the while loop of eatComments.
eatCommentsPass(p, comments) ==
    Let(           node(p, Allow({"comment"}), {}, grammar), LAMBDA comment :
       IF ~Truthy(comment.r) THEN Rows(comment.p, comments, FALSE, FALSE)
       ELSE Rows(eatWhitespace(comment.p, TRUE), Append(comments, comment.r), TRUE, FALSE))

RECURSIVE eatCommentsFrom(_, _)
eatCommentsFrom(p, comments) ==
    IF ~Faulted(p) /\ startsWith(p, U(<<"<", "!", "-", "-">>))
    THEN Let(eatCommentsPass(p, comments), LAMBDA s :
            IF s.more THEN eatCommentsFrom(s.p, s.content) ELSE [p |-> s.p, r |-> s.content])
    ELSE [p |-> p, r |-> comments]

eatComments(p, comments) == eatCommentsFrom(eatWhitespace(p, TRUE), comments)

RECURSIVE eatNewlines(_)
eatNewlines(p) ==
    IF ~Faulted(p) /\ startsWith(p, U(<<"\n">>)) THEN eatNewlines(eat(p, U(<<"\n">>), TRUE).p) ELSE p

\* The attributes of a cell: dropped, and the position restored, when '||'
\* follows them or no '|' does.
cellAttributes(p) ==
    Let(attributes(p, <<U(<<"|">>), U(<<"!", "!">>), U(<<"\n">>)>>, FALSE), LAMBDA attrs :
       IF startsWith(attrs.p, U(<<"|", "|">>)) \/ ~eat(attrs.p, U(<<"|">>), FALSE).r
       THEN [p |-> SetPos(attrs.p, p.pos), r |-> <<>>]
       ELSE [p |-> eat(attrs.p, U(<<"|">>), FALSE).p, r |-> attrs.r])

\* if (this.startsWith('||')) this.eat('|'); else if (this.startsWith('!!')) this.eat('!')
eatCellEnd(p) ==
    IF startsWith(p, U(<<"|", "|">>)) THEN eat(p, U(<<"|">>), TRUE).p
    ELSE IF startsWith(p, U(<<"!", "!">>)) THEN eat(p, U(<<"!">>), TRUE).p
    ELSE p

\* One pass through the do-while of tableRow, p being this after eatWhitespace.
tableCell(p, content) ==
    IF Faulted(p) THEN Rows(p, content, FALSE, TRUE)
    ELSE IF ~startsWithAny(p, <<U(<<"|">>), U(<<"!">>)>>)
            \/ startsWithAny(p, <<U(<<"|", "-">>), U(<<"|", "}">>)>>)
    THEN Rows(p, content, FALSE, FALSE)
    ELSE Let(cellAttributes(eatWhitespace(eat(p, IF startsWith(p, U(<<"!">>)) THEN U(<<"!">>)
                                                 ELSE U(<<"|">>), TRUE).p, FALSE)),
             LAMBDA attrs :
         Let(next(eatNewlines(attrs.p),
                  [end |-> <<U(<<"\n">>)>>, endBefore |-> <<U(<<"|">>), U(<<"!", "!">>)>>,
                   disallow |-> {"preformatted"}]), LAMBDA cell :
            IF cell.r = Null THEN Rows(cell.p, content, FALSE, TRUE)
            ELSE Rows(eatCellEnd(cell.p),
                      Append(content, Obj([type |-> "table-cell",
                                           header |-> startsWith(p, U(<<"!">>)),
                                           attributes |-> attrs.r, content |-> trim(cell.r)])),
                      ~isEnd(eatCellEnd(cell.p)) /\ ~startsWith(eatCellEnd(cell.p), U(<<"|", "}">>)),
                      FALSE)))

\* The do-while of tableRow, s being the locals a pass left.
RECURSIVE tableCells(_)
tableCells(s) ==
    IF s.more THEN tableCells(tableCell(eatWhitespace(s.p, TRUE), s.content)) ELSE s

\* The statements of tableRow ahead of its loop: failed where it returns null.
tableRowStart(p, started) ==
    IF started THEN [p |-> p, attributes |-> <<>>, comments |-> <<>>, failed |-> FALSE]
    ELSE Let(attributes(eatCount(eat(p, U(<<"|", "-">>), TRUE).p, U(<<"-">>)).p,
                        <<U(<<"\n">>)>>, TRUE), LAMBDA attrs :
            IF ~eat(attrs.p, U(<<"\n">>), FALSE).r
            THEN [p |-> attrs.p, attributes |-> attrs.r, comments |-> <<>>, failed |-> TRUE]
            ELSE Let(eatComments(eat(attrs.p, U(<<"\n">>), FALSE).p, <<>>), LAMBDA comments :
                    [p |-> comments.p, attributes |-> attrs.r, comments |-> comments.r,
                     failed |-> FALSE]))

\* The statements of tableRow from its loop on, row being what they follow.
tableRowFrom(row, cells) ==
    IF cells.failed THEN [p |-> cells.p, r |-> Null]
    ELSE [p |-> cells.p,
          r |-> Obj((IF Len(row.comments) > 0 THEN [comments |-> List(row.comments)] ELSE <<>>)
                    @@ [type |-> "table-row", attributes |-> row.attributes,
                        content |-> List(cells.content)])]

tableRow(p, started) ==
    Let(tableRowStart(p, started), LAMBDA row :
       IF row.failed THEN [p |-> row.p, r |-> Null]
       ELSE tableRowFrom(row, tableCells(Rows(row.p, <<>>, TRUE, FALSE))))

\* const comments = [...commentsBefore, ...(row.comments || []), ...this.eatComments()];
\* if (comments.length) row.comments = comments
withComments(row, commentsBefore, commentsAfter) ==
    IF Len(commentsBefore) + Len(commentsAfter) > 0 \/ "comments" \in DOMAIN row
    THEN [comments |-> List(commentsBefore
                            \o (IF "comments" \in DOMAIN row THEN row.comments.v ELSE <<>>)
                            \o commentsAfter)] @@ row
    ELSE row

\* A loop condition that also holds at the end of the table.
tableRowEndLoose(row, after, content, commentsBefore) ==
    Rows(after.p, Append(content, withComments(row, commentsBefore, after.r)),
         ~Faulted(after.p) /\ startsWithAny(after.p, <<U(<<"|", "-">>), U(<<"|", "}">>)>>), FALSE)

\* The end of a pass through the do-while of table, row being what tableRow
\* returned and after what eatComments did.
tableRowEnd(row, after, content, commentsBefore) ==
    Rows(after.p, Append(content, withComments(row, commentsBefore, after.r)),
         ~Faulted(after.p) /\ startsWith(after.p, U(<<"|", "-">>)), FALSE)

\* One pass through the do-while of table, before being what eatComments did.
tableRowsPass(before, content) ==
    Let(tableRow(before.p, Len(content) = 0 /\ ~startsWith(before.p, U(<<"|", "-">>))),
        LAMBDA row :
       IF IsNullish(row.r) THEN Rows(row.p, content, FALSE, TRUE)
       ELSE tableRowEnd(row.r, eatComments(row.p, <<>>), content, before.r))

\* The do-while of table, s being the locals a pass left.
RECURSIVE tableRows(_)
tableRows(s) ==
    IF s.more
    THEN tableRows(IF Faulted(s.p) THEN Rows(s.p, s.content, FALSE, TRUE)
                   ELSE tableRowsPass(eatComments(s.p, <<>>), s.content))
    ELSE s

\* if (this.eat('|+', false)) caption = this.trim(this.next({end: ['\n']}))
tableCaption(p) ==
    IF eat(p, U(<<"|", "+">>), FALSE).r
    THEN Let(next(eat(p, U(<<"|", "+">>), FALSE).p, [end |-> <<U(<<"\n">>)>>]), LAMBDA caption :
            [p |-> caption.p, r |-> trim(caption.r)])
    ELSE [p |-> p, r |-> List(<<>>)]

\* The statements of table from its loop on.
tableFrom(attrs, caption, rows) ==
    IF rows.failed \/ ~eat(rows.p, U(<<"|", "}">>), FALSE).r THEN [p |-> rows.p, r |-> Null]
    ELSE [p |-> eat(rows.p, U(<<"|", "}">>), FALSE).p,
          r |-> Obj([type |-> "table", attributes |-> attrs, caption |-> caption,
                     content |-> List(rows.content)])]

table(p) ==
    Let(attributes(p, <<U(<<"\n">>)>>, FALSE), LAMBDA attrs :
    Let(tableCaption(eatWhitespace(eat(attrs.p, U(<<"\n">>), FALSE).p, TRUE)), LAMBDA caption :
       tableFrom(attrs.r, caption.r, tableRows(Rows(caption.p, <<>>, TRUE, FALSE)))))

kGalleryEnd == U(<<"<", "/", "g", "a", "l", "l", "e", "r", "y", ">">>)

\* One pass through the while loop of gallery.
galleryPass(p, items) ==
    Let(      eatWhitespace(p, TRUE), LAMBDA p1 :
    Let(         next(p1, [end |-> <<U(<<"\n">>)>>, endBefore |-> <<U(<<"|">>), kGalleryEnd>>]), LAMBDA toRaw :
    Let(           trim(toRaw.r), LAMBDA trimmed :
    Let(      IF Len(trimmed.v) > 0 THEN trimmed.v[1] ELSE Undefined, LAMBDA to :
    Let(       eat(toRaw.p, U(<<"|">>), FALSE), LAMBDA bar :
    Let(     next(bar.p, [end |-> <<U(<<"\n">>)>>, endBefore |-> <<kGalleryEnd>>]), LAMBDA c :
    Let(           IF bar.r THEN trim(c.r) ELSE List(<<>>), LAMBDA content :
       IF startsWith(p1, kGalleryEnd) THEN Rows(p1, items, FALSE, FALSE)
       ELSE IF ~Truthy(toRaw.r) THEN Rows(toRaw.p, items, FALSE, TRUE)
       ELSE IF ~Truthy(to)
       THEN (IF ~bar.r THEN Rows(bar.p, items, FALSE, TRUE)
             ELSE Rows(eatWhitespace(bar.p, TRUE), items, TRUE, FALSE))
       ELSE Rows(IF bar.r THEN c.p ELSE bar.p,
                 Append(items, Obj([type |-> "link", to |-> to, content |-> content])),
                 TRUE, FALSE))))))))

\* The while loop over the lines of a gallery; r is Null when a line fails.
RECURSIVE galleryItems(_, _)
galleryItems(p, items) ==
    IF Faulted(p) \/ ~isStartOfLine(p) THEN [p |-> p, r |-> List(items)]
    ELSE Let(galleryPass(p, items), LAMBDA s :
            IF s.failed THEN [p |-> s.p, r |-> Null]
            ELSE IF s.more THEN galleryItems(s.p, s.content)
            ELSE [p |-> s.p, r |-> List(s.content)])

gallery(p) ==
    Let(         attributes(p, <<U(<<">">>)>>, FALSE), LAMBDA attrs :
    Let(      eat(attrs.p, U(<<">">>), FALSE), LAMBDA gt :
    Let(         galleryItems(eatWhitespace(gt.p, TRUE), <<>>), LAMBDA items :
    Let(         eat(items.p, kGalleryEnd, FALSE), LAMBDA close :
       IF ~gt.r THEN [p |-> gt.p, r |-> Null]
       ELSE IF IsNullish(items.r) THEN [p |-> items.p, r |-> Null]
       ELSE IF ~close.r THEN [p |-> close.p, r |-> Null]
       ELSE [p |-> close.p, r |-> Obj([attributes |-> attrs.r, items |-> items.r])]))))

----------------------------------------------------------------------------
(* Parser.node and Parser.next *)

\* The schemes of the externalLink postCondition:
\* /((https?|ftps?|sftp|git|svn|ircs?):)?\/\/|(mailto|magnet|tel|urn|xmpp|geo):/yi
kUriPrefixes == <<
    U(<<"/", "/">>),
    U(<<"h", "t", "t", "p", ":", "/", "/">>), U(<<"h", "t", "t", "p", "s", ":", "/", "/">>),
    U(<<"f", "t", "p", ":", "/", "/">>), U(<<"f", "t", "p", "s", ":", "/", "/">>),
    U(<<"s", "f", "t", "p", ":", "/", "/">>), U(<<"g", "i", "t", ":", "/", "/">>),
    U(<<"s", "v", "n", ":", "/", "/">>), U(<<"i", "r", "c", ":", "/", "/">>),
    U(<<"i", "r", "c", "s", ":", "/", "/">>),
    U(<<"m", "a", "i", "l", "t", "o", ":">>), U(<<"m", "a", "g", "n", "e", "t", ":">>),
    U(<<"t", "e", "l", ":">>), U(<<"u", "r", "n", ":">>), U(<<"x", "m", "p", "p", ":">>),
    U(<<"g", "e", "o", ":">>) >>

condition(p, name) ==
    CASE name = "isStartOfLine" -> isStartOfLine(p)
      [] name = "isAfterTagName" -> isAfterTagName(p)
      [] name = "uriScheme" -> startsWithAny(p, kUriPrefixes)

\* The argument of this.tag(...) in the func of each descriptor of the group tags.
tagOptions(name) ==
    CASE name = "hr" -> [only |-> Allow({U(<<"h", "r">>)}), hasContent |-> FALSE]
      [] name = "source" -> [only |-> Allow({U(<<"s", "o", "u", "r", "c", "e">>)}),
                             type |-> "source", allow |-> Allow({})]
      [] name = "math" -> [only |-> Allow({U(<<"m", "a", "t", "h">>)}), type |-> "math",
                           disallow |-> {"template", "templatePreformatted"}]
      [] name = "ref" -> [only |-> Allow({U(<<"r", "e", "f">>)}), type |-> "ref"]
      [] name = "nowiki" -> [only |-> Allow({U(<<"n", "o", "w", "i", "k", "i">>)}),
                             type |-> "nowiki", allow |-> Allow({})]
      [] name = "pre" -> [only |-> Allow({U(<<"p", "r", "e">>)}), type |-> "pre",
                          allow |-> Allow({}), trim |-> FALSE]
      [] name = "syntaxhighlight" ->
            [only |-> Allow({U(<<"s", "y", "n", "t", "a", "x", "h", "i", "g", "h", "l", "i",
                                 "g", "h", "t">>)}),
             type |-> "syntaxhighlight", allow |-> Allow({})]
      [] name = "code" -> [only |-> Allow({U(<<"c", "o", "d", "e">>)}), type |-> "code",
                           allow |-> Allow({})]
      [] name = "tag" -> [type |-> "tag"]

\* nodeType.func ? nodeType.func() : this.next(nodeType)
callFunc(p, nodeType) ==
    CASE nodeType.func = "none" -> next(p, nodeType)
      [] nodeType.func = "link" -> link(p)
      [] nodeType.func = "externalLink" -> externalLink(p)
      [] nodeType.func \in {"template", "templatePreformatted"} ->
            template(p, IF nodeType.func = "template" THEN AllowAll ELSE Allow({}))
      [] nodeType.func \in {"unorderedList", "orderedList"} ->
            list(p, IF nodeType.func = "unorderedList" THEN U(<<"*">>) ELSE U(<<"#">>))
      [] nodeType.func = "indent" -> indent(p, FALSE)
      [] nodeType.func = "description" -> description(p)
      [] nodeType.func = "heading" -> heading(p)
      [] nodeType.func = "htmlEntity" -> htmlEntity(p)
      [] nodeType.func = "preformatted" -> preformatted(p)
      [] nodeType.func = "gallery" -> gallery(p)
      [] nodeType.func = "table" -> table(p)
      [] OTHER -> tag(p, tagOptions(nodeType.func))

IsDashOrSpace(c) == IsWhiteSpace(c) \/ c = 45

RECURSIVE stripLeft(_)
stripLeft(s) == IF Len(s) > 0 /\ IsDashOrSpace(s[1]) THEN stripLeft(Tail(s)) ELSE s

RECURSIVE stripRight(_)
stripRight(s) ==
    IF Len(s) > 0 /\ IsDashOrSpace(s[Len(s)]) THEN stripRight(SubSeq(s, 1, Len(s) - 1)) ELSE s

\* x.replace(/^[\s-]+|[\s-]+$/g, '')
stripComment(x) == Str(stripRight(stripLeft(x.s)))

without(rec, field) == [f \in DOMAIN rec \ {field} |-> rec[f]]

postProcess(name, content) ==
    CASE name = "templatePreformatted" -> [type |-> "template"] @@ content
      [] name = "comment" ->
            [content |-> List([i \in 1..Len(content.content.v) |-> stripComment(content.content.v[i])])]
            @@ content
      [] name = "lineBreak" -> without(content, "content")
      [] name = "nowiki" ->
            IF "content" \in DOMAIN content /\ ~IsNullish(content.content) THEN content
            ELSE List(<<>>)

\* typeof content === 'object': an array becomes the node's content, an
\* object is merged under the descriptor's type
wrap(nodeType, content) ==
    CASE content.k = "list" -> Obj([type |-> nodeType.type, content |-> content])
      [] content.k = "object" -> content @@ [type |-> nodeType.type]
      [] OTHER -> content

\* The node of a descriptor from the content: the type is added, then
\* postProcess applies.
processed(nodeType, content) ==
    IF nodeType.postProcess # "none"
    THEN postProcess(nodeType.postProcess, wrap(nodeType, content))
    ELSE wrap(nodeType, content)

\* A variant of skipped that does not look at allow.
skippedByStart(p, nodeType, allow, disallow) ==
    \/ ~startsWith(p, nodeType.start)
    \/ nodeType.type # "" /\ nodeType.type \in disallow

\* The test at the head of the loop of node(): the descriptor does not start
\* here, or its type is not allowed.
skipped(p, nodeType, allow, disallow) ==
    \/ ~startsWith(p, nodeType.start)
    \/ /\ nodeType.type # ""
       /\ \/ (~allow.any /\ nodeType.type \notin allow.types)
          \/ nodeType.type \in disallow

\* this.eat(nodeType.start), unless the descriptor keeps its start.
eatStart(p, nodeType) == IF nodeType.keepStart THEN p ELSE eat(p, nodeType.start, TRUE).p

\* The preCondition fails, or the postCondition does once the start is eaten.
rejected(p, nodeType) ==
    \/ nodeType.preCondition # "none" /\ ~condition(p, nodeType.preCondition)
    \/ nodeType.postCondition # "none" /\ ~condition(eatStart(p, nodeType), nodeType.postCondition)

\* The end of a pass through the loop of node() for a descriptor with a group,
\* result being what node() returned for the group: again is the pass ending
\* in continue, with the position rewound.
nodeGroup(result, originalPos) ==
    IF IsNullish(result.r)
    THEN [p |-> SetPos(result.p, originalPos), r |-> Null, again |-> TRUE]
    ELSE [p |-> result.p, r |-> result.r, again |-> FALSE]

\* The end of a pass for a descriptor without a group, content being what its
\* func, or next, returned.
nodeContent(content, nodeType, originalPos) ==
    IF content.p.fault # "none" THEN [p |-> content.p, r |-> Null, again |-> FALSE]
    ELSE IF Len(nodeType.replaceWith) > 0
    THEN [p |-> content.p, r |-> Str(nodeType.replaceWith), again |-> FALSE]
    ELSE IF IsNullish(content.r)
    THEN [p |-> SetPos(BumpBacktrackingCount(content.p), originalPos), r |-> Null, again |-> TRUE]
    ELSE IF IsNullish(processed(nodeType, content.r))
    THEN [p |-> Throw(content.p, "Error"), r |-> Null, again |-> FALSE]
    ELSE [p |-> content.p, r |-> processed(nodeType, content.r), again |-> FALSE]

\* The body of the loop of node() for a descriptor that starts at the position
\* of p and is allowed.
nodeAt(p, allow, disallow, nodeType, originalPos) ==
    IF rejected(p, nodeType) THEN [p |-> SetPos(p, originalPos), r |-> Null, again |-> TRUE]
    ELSE IF nodeType.group # "none"
    THEN nodeGroup(node(eatStart(p, nodeType), allow, disallow, groupOf(nodeType.group)),
                   originalPos)
    ELSE nodeContent(callFunc(eatStart(p, nodeType), nodeType), nodeType, originalPos)

\* The descriptors of g, from the i-th on, that the head of the loop of node()
\* does not pass over at the position of p.
candidates(p, allow, disallow, g, i) ==
    {j \in i..Len(g) : ~skipped(p, g[j], allow, disallow)}

Min(S) == CHOOSE x \in S : \A y \in S : x <= y

RECURSIVE nodeFrom(_, _, _, _, _, _)

\* What follows a pass through the loop of node() at the descriptor before the
\* i-th of g.
nodeNext(tried, allow, disallow, g, i, originalPos) ==
    IF tried.again THEN nodeFrom(tried.p, allow, disallow, g, i, originalPos)
    ELSE [p |-> tried.p, r |-> tried.r]

\* The loop of node() over the descriptors of g, from the i-th on: it goes on
\* to the first that is not passed over.
nodeFrom(p, allow, disallow, g, i, originalPos) ==
    IF Faulted(p) \/ candidates(p, allow, disallow, g, i) = {} THEN [p |-> p, r |-> Null]
    ELSE nodeNext(nodeAt(p, allow, disallow, g[Min(candidates(p, allow, disallow, g, i))],
                         originalPos),
                  allow, disallow, g, Min(candidates(p, allow, disallow, g, i)) + 1, originalPos)

node(p, allow, disallow, g) == nodeFrom(p, allow, disallow, g, 1, p.pos)

\* [].concat(node)
concat(x) == IF x.k = "list" THEN x.v ELSE <<x>>

\* The locals of next after a pass through its loop, and how the pass ended:
\* "continue", "break", "null" (return null, or a throw), "empty" (return []),
\* or "node" where the pass goes on to call node().
Pass(p, chunkStart, chunkLength, content, ended) ==
    [p |-> p, chunkStart |-> chunkStart, chunkLength |-> chunkLength, content |-> content,
     ended |-> ended]

\* The statements of next ahead of its loop.
nextStart(p, o) ==
    IF Faulted(p) THEN Pass(p, 0, 0, <<>>, "null")
    ELSE IF /\ Len(o.end) = 0 /\ Len(o.endBefore) = 0 /\ Len(o.backtrack) = 0 /\ ~o.endAtEos
    THEN Pass(p, 0, 0, <<>>, "empty")
    ELSE Pass(IF o.backtrackOn THEN PushBacktrackOn(p) ELSE p, p.pos.offset, 0, <<>>, "continue")

\* An end test that does not look at notEnd.
endTakenAnyEnd(p, o) == startsWithAny(p, o.end)

\* this.startsWithAny(end) && !this.startsWithAny(notEnd)
endTaken(p, o) == startsWithAny(p, o.end) /\ ~startsWithAny(p, o.notEnd)

\* The body of the loop of next down to the call of node().
nextHead(s, o, originalPos) ==
    IF Faulted(s.p) THEN [s EXCEPT !.ended = "null"]
    ELSE IF isEnd(s.p) /\ o.endAtEos THEN [s EXCEPT !.ended = "break"]
    ELSE IF (\E j \in 1..Len(s.p.backtrackOn) : isEndOfLine(s.p))
            \/ startsWithAny(s.p, o.backtrack) \/ isEnd(s.p)
    THEN [s EXCEPT !.p = IF o.backtrackOn
                         THEN PopBacktrackOn(SetPos(BumpBacktrackingCount(s.p), originalPos))
                         ELSE SetPos(BumpBacktrackingCount(s.p), originalPos),
                   !.ended = "null"]
    ELSE IF endTaken(s.p, o)
    THEN [s EXCEPT !.p = eatAny(s.p, o.end, TRUE).p, !.ended = "break"]
    ELSE IF startsWithAny(s.p, o.endBefore) THEN [s EXCEPT !.ended = "break"]
    ELSE [s EXCEPT !.ended = "node"]

\* The rest of the body, n being what node() returned.
nextTail(s, n) ==
    IF s.ended # "node" THEN s
    ELSE IF n.p.fault # "none" THEN [s EXCEPT !.p = n.p, !.ended = "null"]
    ELSE IF Truthy(n.r)
    THEN Pass(PopStack(n.p),
              IF s.chunkLength > 0 THEN n.p.pos.offset ELSE s.chunkStart, 0,
              append(IF s.chunkLength > 0
                     THEN append(s.content, <<Str(substr(n.p.str, s.chunkStart, s.chunkLength))>>)
                     ELSE s.content,
                     concat(n.r)),
              "continue")
    ELSE IF isEnd(n.p) THEN [s EXCEPT !.p = Throw(PopStack(n.p), "TypeError"), !.ended = "null"]
    ELSE Pass(advance(PopStack(n.p), <<n.p.str[n.p.pos.offset + 1]>>),
              IF s.chunkLength = 0 THEN n.p.pos.offset ELSE s.chunkStart,
              s.chunkLength + 1, s.content, "continue")

\* One pass through the body of the loop of next.
nextStep(s, o, originalPos) ==
    nextTail(nextHead(s, o, originalPos), node(PushStack(s.p), o.allow, o.disallow, grammar))

\* What follows the loop of next: flush the chunk, pop the predicate.
nextDone(s, o) ==
    CASE s.ended = "null" -> [p |-> s.p, r |-> Null]
      [] s.ended = "empty" -> [p |-> s.p, r |-> List(<<>>)]
      [] s.ended = "break" ->
            [p |-> IF o.backtrackOn THEN PopBacktrackOn(s.p) ELSE s.p,
             r |-> List(IF s.chunkLength > 0
                        THEN append(s.content,
                                    <<Str(substr(s.p.str, s.chunkStart, s.chunkLength))>>)
                        ELSE s.content)]

\* The loop of next, s being the state the last pass left.
RECURSIVE nextLoop(_, _, _)
nextLoop(s, o, originalPos) ==
    IF s.ended = "continue" THEN nextLoop(nextStep(s, o, originalPos), o, originalPos)
    ELSE nextDone(s, o)

next(p, opts) == nextLoop(nextStart(p, nextOptions(opts)), nextOptions(opts), p.pos)

----------------------------------------------------------------------------
(* Parser.parse *)

\* A variant of lowercaseOf with one entry for each unit of the lower case text.
lowercaseUnits(str) == [i \in 1..Len(strToLowerCase(str)) |-> <<strToLowerCase(str)[i]>>]

\* this.lowercaseStr: the lower case of each unit of str.
lowercaseOf(str) == [i \in 1..Len(str) |-> toLowerCase(str[i])]

\* A variant of reset that leaves the counter of the earlier parse in place.
resetKeepingCount(this, str) ==
    [this EXCEPT !.str = str,
                 !.lowercaseStr = lowercaseOf(str),
                 !.pos = [offset |-> 0, lineNumber |-> 1],
                 !.backtrackOn = <<>>,
                 !.stack = <<>>]

\* The assignments at the start of parse.
reset(this, str) ==
    [this EXCEPT !.str = str,
                 !.lowercaseStr = lowercaseOf(str),
                 !.pos = [offset |-> 0, lineNumber |-> 1],
                 !.backtrackOn = <<>>,
                 !.backtrackingCount = 0,
                 !.stack = <<>>]

\* The try block of parse: the instance after, and what next returned.
run(this, opts, str) ==
    next(reset(this, str) @@ [options |-> opts, fault |-> "none"], [endAtEos |-> TRUE])

\* The error object of a fault.
ErrorOf(fault) == [k |-> "error", name |-> fault]

\* The marker of a call that returned nothing because its error propagated.
Thrown == [k |-> "thrown"]

\* A variant of the catch block that looks at returnError before throwError.
outcomeReturnFirst(opts, res) ==
    IF ~Faulted(res.p) THEN res.r
    ELSE IF opts.returnError THEN ErrorOf(res.p.fault)
    ELSE IF opts.throwError THEN Thrown
    ELSE Null

\* What parse returns, or Thrown when the error propagates.
outcome(opts, res) ==
    IF ~Faulted(res.p) THEN res.r
    ELSE IF opts.throwError THEN Thrown
    ELSE IF opts.returnError THEN ErrorOf(res.p.fault)
    ELSE Null

fieldsOf(p) == [f \in {"str", "lowercaseStr", "pos", "backtrackOn", "backtrackingCount", "stack"} |-> p[f]]

----------------------------------------------------------------------------
(* The state machine: one WikiParser instance and the parse calls made on it *)

NotYet == [k |-> "notYet"]

\* The instance after the constructor: no parse has assigned its fields yet.
kFresh ==
    [str |-> <<>>, lowercaseStr |-> <<>>, pos |-> [offset |-> 0, lineNumber |-> 1],
     backtrackOn |-> <<>>, backtrackingCount |-> 0, stack |-> <<>>]

\* Bounds of the checked behaviours.
MaxTokens == 3
SmallLimit == 1

\* Fragments of wikitext from which the inputs are put together.
Tokens ==
    {U(<<"a">>), U(<<"|">>), U(<<"=">>), U(<<":">>),
     U(<<"[", "[">>), U(<<"]", "]">>), U(<<"{", "{">>), U(<<"}", "}">>),
     U(<<"'", "'">>), U(<<"\n">>), U(<<"&", "n", "b", "s", "p", ";">>)}

RECURSIVE Concats(_)
Concats(n) ==
    IF n = 0 THEN {<<>>}
    ELSE Let(           Concats(n - 1), LAMBDA shorter :
            shorter \cup {s \o t : s \in shorter, t \in Tokens})

\* Inputs in the style of the test suite, longer than MaxTokens fragments.
Samples ==
    {
    (* plain text around entity replacements *)
    U(<<"a", "&", "n", "b", "s", "p", ";", "&", "n", "b", "s", "p", ";", "b">>),
    U(<<"&", "l", "t", ";", "&", "g", "t", ";", "a">>),
    U(<<"a", "&", "#", "6", "5", ";", "b">>),
    (* links (test.js 63-134) *)
    U(<<"[", "[", ":", "a", "]", "]">>),
    U(<<"[", "[", ":", "n", ":", "a", "|", "]", "]">>),
    U(<<"[", "[", "n", ":", "a", "|", "]", "]">>),
    U(<<"[", "[", "a", "#", "b", "]", "]", "s">>),
    U(<<"[", "[", "f", "|", "t", "|", "l", "=", "w", "|", "x", "]", "]">>),
    U(<<"[", "[", "f", "|", "t", "|", "x", "]", "]">>),
    U(<<"[", "[", "a", "|", "1", "=", "b", "]", "]">>),
    U(<<"[", "[", "a", "|", "0", "=", "b", "|", "c", "]", "]">>),
    (* templates (test.js 179-229) *)
    U(<<"{", "{", "t", "|", "p", "|", "=", "}", "}">>),
    U(<<"{", "{", "t", "|", "a", "|", "b", "}", "}">>),
    U(<<"{", "{", "t", "|", "2", "=", "b", "|", "a", "=", "1", "|", "1", "=", "a", "}", "}">>),
    U(<<"{", "{", "t", "|", "0", "=", "x", "}", "}">>),
    U(<<"{", "{", "t", "|", "a", "=", "'", "'", "b", "'", "'", "c", "}", "}">>),
    U(<<"{", "{", "{", "{", "a", "}", "}", "}", "}">>),
    (* headings (test.js 168-177) *)
    U(<<"=", "=", " ", "a", " ", "=", "=", "\n">>),
    U(<<"=", "=", "=", "=", "=", "=", "a", "=", "=", "=", "=", "=", "=">>),
    U(<<"=", "=", "=", "=", "=", "=", "=", "a", "=", "=", "=", "=", "=", "=", "=">>),
    U(<<"=", "a">>),
    (* lists, tables, preformatted text *)
    U(<<"*", " ", "a", "\n", "*", " ", "b", "\n">>),
    U(<<"#", "a", "\n">>),
    U(<<";", "a", ":", "b", "\n">>),
    U(<<":", "a", "\n">>),
    U(<<" ", "a", "\n">>),
    U(<<"{", "|", "\n", "|", "a", "\n", "|", "}">>),
    U(<<"{", "|", "\n", "|", "a", "&", "l", "t", ";", "'", "'", "b", "'", "'", "\n", "|", "}">>),
    U(<<"'", "'", "{", "|", "\n", "|", "\n", "*", "\n">>),
    (* tags and comments *)
    U(<<"a", "<", "!", "-", "-", "b", "-", "-", ">", "c">>),
    U(<<"<", "b", "r", ">", "a">>),
    U(<<"<", "b", ">", "a", "&", "g", "t", ";", "b", "<", "/", "b", ">">>),
    U(<<"<", "n", "o", "w", "i", "k", "i", ">", "'", "'", "a", "'", "'", "<", "/", "n", "o", "w", "i", "k", "i", ">", "b">>),
    (* strings of content lists *)
    U(<<"<", "!", "-", "-", " ", "-", "-", ">">>),
    U(<<"[", "[", "#", "a", "]", "]">>),
    U(<<"{", "{", "t", "|", " ", "|", "a", "=", " ", "}", "}">>),
    (* numeric entities (test.js 374-379) *)
    U(<<"&", "#", "1", "0", "5", "9", ";">>),
    U(<<"&", "#", "x", "5", "0", "0", "0", ";">>),
    U(<<"&", "#", "6", "5", "6", "0", "1", ";">>),
    U(<<"&", "#", "x", "1", "F", "6", "0", "0", ";">>),
    (* magic words *)
    U(<<"_", "_", "T", "O", "C", "_", "_">>),
    U(<<"a", "_", "_", "N", "O", "T", "O", "C", "_", "_", "b">>),
    U(<<"_", "_", "t", "o", "c", "_", "_">>),
    (* text in which every production fails (test.js 15-20, 387-390) *)
    U(<<"[", "t", "e", "s", "t", "]">>),
    U(<<"a", "<", "-", "-", "-", "-", "-", "b">>),
    U(<<"=", "N", "o", "t", " ", "a">>),
    U(<<"[", "[", "a", "|", "b">>),
    U(<<"[", "[", "a", "|", "b", "\n", "c">>),
    (* a production with a predicate inside another *)
    U(<<"'", "'", "'", "'", "'", "'", "'", "'", "a">>),
    U(<<"'", "'", "'", "'", "'", "'", "'", "'", "a", "'", "'", "'", "b", "'", "'", "'", "'", "'">>),
    U(<<"'", "'", "<", "!", "-", "-", "a">>),
    U(<<"'", "'", "<", "!", "-", "-", "a", "-", "-", ">", "b", "'", "'">>),
    U(<<"'", "'", "<", "b", "r", ">", "\n">>)
    }

\* Inputs that open a tag and never close it: what follows the opening tag,
\* and an outer terminator with what follows it.
TagBodies ==
    {<<>>, U(<<"a">>), U(<<"<", "b", ">">>), U(<<"a", "<", "b", ">", "c">>),
     U(<<" ", "a", "<", "i", ">", "c", " ">>)}

TagRests ==
    {<<>>, U(<<"]", "]">>), U(<<"}", "}", "a">>), U(<<"\n", "|", "a">>), U(<<"\n", "!">>)}

TagInputs == {U(<<"<", "b", ">">>) \o body \o rest : body \in TagBodies, rest \in TagRests}

\* Inputs that put markup between the opening and the closing of a tag or
\* comment whose content is not parsed, and inputs that leave it unclosed.
VerbatimBodies ==
    {U(<<"'", "'", "a", "'", "'">>), U(<<"[", "[", "a", "]", "]">>), U(<<"&", "n", "b", "s", "p", ";">>),
     U(<<"{", "{", "a", "}", "}">>), U(<<"<", "b", ">", "a">>), U(<<"&", "l", "t", ";", "<", "b", "r", ">">>),
     U(<<"a", "\n", "*", "b">>)}

VerbatimTags ==
    {U(<<"n", "o", "w", "i", "k", "i">>), U(<<"p", "r", "e">>), U(<<"s", "o", "u", "r", "c", "e">>),
     U(<<"s", "y", "n", "t", "a", "x", "h", "i", "g", "h", "l", "i", "g", "h", "t">>),
     U(<<"c", "o", "d", "e">>)}

VerbatimInputs ==
    {U(<<"<">>) \o name \o U(<<">">>) \o body \o U(<<"<", "/">>) \o name \o U(<<">">>) :
        name \in VerbatimTags, body \in VerbatimBodies}
    \cup {U(<<"<">>) \o name \o U(<<">">>) \o body : name \in VerbatimTags, body \in VerbatimBodies}
    \cup {U(<<"<", "!", "-", "-">>) \o body \o U(<<"-", "-", ">">>) : body \in VerbatimBodies}

\* Inputs that put text straight behind the closing brackets of a link.
TrailInputs ==
    {U(<<"[", "[">>) \o page \o U(<<"]", "]">>) \o trail \o rest :
        page \in {U(<<"a">>), U(<<"a", "|", "b">>), U(<<"A", "_", "1", "|", "b", "2">>)},
        trail \in {U(<<"s">>), U(<<"s", "_", "1">>), U(<<"S", "s">>)},
        rest \in {<<>>, U(<<" ", "c">>), U(<<"-", "s">>)}}

\* Inputs that put U+0130, whose lower case is two units long, at the front.
DottedInputs == {<<CAPITAL_I_DOT>> \o x : x \in Concats(MaxTokens - 1) \cup Samples}

\* Inputs that close italic text with a run of two, three or four quotes
\* (test.js 22-43).
ApostropheInputs ==
    {front \o U(<<"'", "'">>) \o word \o quotes \o rest :
        front \in {<<>>, U(<<"a", " ">>)},
        word \in {U(<<"a">>), U(<<"a", " ", "b">>)},
        quotes \in {U(<<"'", "'">>), U(<<"'", "'", "'">>), U(<<"'", "'", "'", "'">>)},
        rest \in {<<>>, U(<<" ", "c">>), U(<<"\n", "c", " ", "'", "'", "d", "'", "'">>)}}

Inputs ==
    Concats(MaxTokens) \cup Samples \cup TagInputs \cup VerbatimInputs \cup TrailInputs
    \cup DottedInputs \cup ApostropheInputs

\* The options a caller may construct the parser with.
OptionChoices ==
    {[kDefaultOptions EXCEPT !.backtrackingLimit = l, !.throwError = t, !.returnError = r] :
        l \in {SmallLimit, kDefaultOptions.backtrackingLimit},
        t \in BOOLEAN, r \in BOOLEAN}

Init ==
    /\ options \in OptionChoices
    /\ inst = kFresh
    /\ pending \in {<<x>> : x \in Inputs}
    /\ calls = 0
    /\ entry = kFresh
    /\ raised = "none"
    /\ returned = NotYet
    /\ thrown = "none"

\* Inputs of an earlier parse call on the same instance: they end in a fault
\* or leave the counter and the stacks non-empty.
Earlier ==
    {U(<<"a">>), U(<<"'", "'", "a">>), U(<<"[", "[", "a", "|">>),
     U(<<"=", "a", "[", "[", "a">>), U(<<"{", "{", "{", "{", "a", "}", "}", "}", "}">>)}

LaterInputs == Concats(MaxTokens - 1) \cup Samples

\* One instance used for two parse calls in a row.
InitReuse ==
    /\ options \in OptionChoices
    /\ inst = kFresh
    /\ pending \in {<<y, x>> : y \in Earlier, x \in LaterInputs}
    /\ calls = 0
    /\ entry = kFresh
    /\ raised = "none"
    /\ returned = NotYet
    /\ thrown = "none"

\* parser.parse(str)
Parse ==
    /\ Len(pending) > 0
    /\ Let(       run(inst, options, Head(pending)), LAMBDA res :
       Let(       outcome(options, res), LAMBDA out :
          /\ inst' = fieldsOf(res.p)
          /\ raised' = res.p.fault
          /\ returned' = out
          /\ thrown' = IF out = Thrown THEN res.p.fault ELSE "none"))
    /\ entry' = inst
    /\ pending' = Tail(pending)
    /\ calls' = calls + 1
    /\ UNCHANGED options

Next == Parse

Spec == Init /\ [][Next]_vars

SpecReuse == InitReuse /\ [][Next]_vars

\* The instance as the try block of parse starts with it.
started(this, opts, str) == reset(this, str) @@ [options |-> opts, fault |-> "none"]

\* Units that start no production: the lower case letters.
IsLetter(c) == c >= 97 /\ c <= 122

\* The offsets at which the loop of the top-level next calls node() before
\* any production has run: 0, and each offset behind a run of letters.
NodeOffsets(str) == {k \in 0..(Len(str) - 1) : \A i \in 1..k : IsLetter(str[i])}

\* The instance at the call of node() in the top-level next at offset k.
atNode(this, opts, str, k) ==
    PushStack(SetPos(started(this, opts, str), [offset |-> k, lineNumber |-> 1]))

\* const node = this.node(allow, disallow) in the loop of the top-level
\* next: entry is the instance at the call, inst the instance at the return.
NodeCall ==
    /\ Len(pending) > 0
    /\ \E k \in NodeOffsets(Head(pending)) :
          Let(node(atNode(inst, options, Head(pending), k), AllowAll, {}, grammar), LAMBDA res :
             /\ entry' = fieldsOf(atNode(inst, options, Head(pending), k))
             /\ inst' = fieldsOf(res.p)
             /\ raised' = res.p.fault
             /\ returned' = res.r)
    /\ thrown' = "none"
    /\ pending' = Tail(pending)
    /\ calls' = calls + 1
    /\ UNCHANGED options

NextNode == NodeCall

SpecNode == Init /\ [][NextNode]_vars

\* The first call of next that node(allow, disallow, g) makes for a
\* descriptor at p: ok is FALSE when no descriptor starts at p or the first
\* that does is rejected or has a func; p is the instance at the call, behind
\* the start of the descriptor d.
RECURSIVE firstNext(_, _, _, _)
firstNext(p, allow, disallow, g) ==
    IF Faulted(p) \/ candidates(p, allow, disallow, g, 1) = {}
    THEN [ok |-> FALSE, p |-> p, d |-> g[1]]
    ELSE Let(g[Min(candidates(p, allow, disallow, g, 1))], LAMBDA d :
            IF rejected(p, d) \/ d.func # "none" THEN [ok |-> FALSE, p |-> p, d |-> d]
            ELSE IF d.group # "none"
            THEN firstNext(eatStart(p, d), allow, disallow, groupOf(d.group))
            ELSE [ok |-> TRUE, p |-> eatStart(p, d), d |-> d])

\* The call of next for the descriptor that starts the input.
outerNext(this, opts, str) == firstNext(atNode(this, opts, str, 0), AllowAll, {}, grammar)

\* The call of next for a descriptor that starts straight behind the start
\* of the descriptor that starts the input, from inside the next of that one.
innerNext(outer) ==
    IF ~outer.ok
       \/ nextStart(outer.p, nextOptions(outer.d)).ended # "continue"
       \/ nextHead(nextStart(outer.p, nextOptions(outer.d)), nextOptions(outer.d),
                   outer.p.pos).ended # "node"
    THEN [ok |-> FALSE, p |-> outer.p, d |-> outer.d]
    ELSE firstNext(PushStack(nextStart(outer.p, nextOptions(outer.d)).p),
                   nextOptions(outer.d).allow, nextOptions(outer.d).disallow, grammar)

\* this.next(nodeType) in node(): entry is the instance at the call, inst
\* the instance at the return.
NextCallAt(call) ==
    /\ call.ok
    /\ Let(next(call.p, call.d), LAMBDA res :
          /\ entry' = fieldsOf(call.p)
          /\ inst' = fieldsOf(res.p)
          /\ raised' = res.p.fault
          /\ returned' = res.r)
    /\ thrown' = "none"
    /\ pending' = Tail(pending)
    /\ calls' = calls + 1
    /\ UNCHANGED options

OuterNextCall ==
    /\ Len(pending) > 0 /\ Len(Head(pending)) > 0
    /\ NextCallAt(outerNext(inst, options, Head(pending)))

InnerNextCall ==
    /\ Len(pending) > 0 /\ Len(Head(pending)) > 0
    /\ NextCallAt(innerNext(outerNext(inst, options, Head(pending))))

NextNext == OuterNextCall \/ InnerNextCall

SpecNext == Init /\ [][NextNext]_vars

\* The instance with the cursor at offset k of str, within telling whether
\* the predicate of an enclosing next is on the stack.
atCursor(this, opts, str, k, within) ==
    Let(SetPos(started(this, opts, str),
               [offset |-> k, lineNumber |-> 1 + CountNewlines(SubSeq(str, 1, k))]), LAMBDA p :
       IF within THEN PushBacktrackOn(p) ELSE p)

\* The parameter objects of the calls of next whose loop is stepped: parse,
\* list and indent, the cells of a table, and the descriptors without func.
NextCallers ==
    {[endAtEos |-> TRUE], kLineOpts,
     [end |-> <<U(<<"\n">>)>>, endBefore |-> <<U(<<"|">>), U(<<"!", "!">>)>>,
      disallow |-> {"preformatted"}]}
    \cup {grammar[i] : i \in {3, 4, 5}} \cup {tags[1]}

\* The endBefore arguments of the calls of attributes.
AttributeCallers ==
    {<<U(<<"\n">>)>>, <<U(<<">">>)>>, <<U(<<"|">>), U(<<"!", "!">>), U(<<"\n">>)>>}

\* One pass through the body of a loop: entry is the instance at the top of
\* the body, inst the instance at its bottom, s what the pass left, from
\* the position the enclosing method started at.
LoopPassAt(loop, p, s, from) ==
    /\ entry' = fieldsOf(p)
    /\ inst' = fieldsOf(s.p)
    /\ raised' = s.p.fault
    /\ returned' = [k |-> "pass", loop |-> loop, more |-> s.more, failed |-> s.failed,
                    from |-> from]
    /\ thrown' = "none"
    /\ pending' = Tail(pending)
    /\ calls' = calls + 1
    /\ UNCHANGED options

\* for (;;) in next, the call having started at offset j.
NextPass ==
    /\ Len(pending) > 0
    /\ \E k \in 0..Len(Head(pending)), within \in BOOLEAN, o \in NextCallers :
       \E j \in {0, k} :
          Let(atCursor(inst, options, Head(pending), j, within), LAMBDA p :
          Let(nextStart(p, nextOptions(o)), LAMBDA s :
          Let([s EXCEPT !.p = SetPos(s.p, atCursor(inst, options, Head(pending), k, within).pos)],
              LAMBDA top :
          Let(nextStep(top, nextOptions(o), p.pos), LAMBDA after :
             /\ s.ended = "continue"
             /\ LoopPassAt("next", top.p,
                           [p |-> after.p, more |-> after.ended = "continue",
                            failed |-> after.ended = "null"], p.pos)))))

\* do ... while (this.startsWith('|-')) in table: the first pass, or a later
\* one, which starts at '|-'.
TablePass ==
    /\ Len(pending) > 0
    /\ \E k \in 0..Len(Head(pending)), within \in BOOLEAN, first \in BOOLEAN :
          Let(atCursor(inst, options, Head(pending), k, within), LAMBDA p :
             /\ first \/ startsWith(p, U(<<"|", "-">>))
             /\ LoopPassAt("table", p,
                           tableRowsPass(eatComments(p, <<>>),
                                         IF first THEN <<>> ELSE <<Obj([type |-> "table-row"])>>),
                           p.pos))

\* do ... while (!this.isEnd() && !this.startsWith('|}')) in tableRow.
TableRowPass ==
    /\ Len(pending) > 0
    /\ \E k \in 0..Len(Head(pending)), within \in BOOLEAN, first \in BOOLEAN :
          Let(atCursor(inst, options, Head(pending), k, within), LAMBDA p :
             /\ first \/ (~isEnd(p) /\ ~startsWith(p, U(<<"|", "}">>)))
             /\ LoopPassAt("tableRow", p, tableCell(eatWhitespace(p, TRUE), <<>>), p.pos))

\* while (this.isStartOfLine() && this.startsWith(character)) in list.
ListPass ==
    /\ Len(pending) > 0
    /\ \E k \in 0..Len(Head(pending)), within \in BOOLEAN, character \in {U(<<"*">>), U(<<"#">>)} :
          Let(atCursor(inst, options, Head(pending), k, within), LAMBDA p :
             /\ isStartOfLine(p) /\ startsWith(p, character)
             /\ LoopPassAt("list", p, listPass(p, character, <<>>), p.pos))

\* while ((start || this.isStartOfLine()) && this.startsWith(':')) in indent.
IndentPass ==
    /\ Len(pending) > 0
    /\ \E k \in 0..Len(Head(pending)), within \in BOOLEAN, start \in BOOLEAN :
          Let(atCursor(inst, options, Head(pending), k, within), LAMBDA p :
             /\ (start \/ isStartOfLine(p)) /\ startsWith(p, U(<<":">>))
             /\ LoopPassAt("indent", p, indentPass(p, <<>>), p.pos))

\* while (this.isStartOfLine() && this.startsWith(' ')) in preformatted.
PreformattedPass ==
    /\ Len(pending) > 0
    /\ \E k \in 0..Len(Head(pending)), within \in BOOLEAN :
          Let(atCursor(inst, options, Head(pending), k, within), LAMBDA p :
             /\ isStartOfLine(p) /\ startsWith(p, U(<<" ">>))
             /\ LoopPassAt("preformatted", p, preformattedPass(p, <<>>), p.pos))

\* while (this.isStartOfLine()) in gallery.
GalleryPass ==
    /\ Len(pending) > 0
    /\ \E k \in 0..Len(Head(pending)), within \in BOOLEAN :
          Let(atCursor(inst, options, Head(pending), k, within), LAMBDA p :
             /\ isStartOfLine(p)
             /\ LoopPassAt("gallery", p, galleryPass(p, <<>>), p.pos))

\* while (!this.isEnd() && !this.startsWithAny(endBefore)) in attributes.
AttributesPass ==
    /\ Len(pending) > 0
    /\ \E k \in 0..Len(Head(pending)), within \in BOOLEAN, endBefore \in AttributeCallers,
          closeQuoteOnNewline \in BOOLEAN :
          Let(atCursor(inst, options, Head(pending), k, within), LAMBDA p :
             /\ ~isEnd(p) /\ ~startsWithAny(p, endBefore)
             /\ LoopPassAt("attributes", p,
                           attributesPass(p, endBefore, closeQuoteOnNewline, <<>>), p.pos))

\* while (this.startsWith('<!--')) in eatComments.
EatCommentsPass ==
    /\ Len(pending) > 0
    /\ \E k \in 0..Len(Head(pending)), within \in BOOLEAN :
          Let(atCursor(inst, options, Head(pending), k, within), LAMBDA p :
             /\ startsWith(p, U(<<"<", "!", "-", "-">>))
             /\ LoopPassAt("eatComments", p, eatCommentsPass(p, <<>>), p.pos))

\* Inputs in which the loops of the productions have something to pass over.
LoopInputs ==
    {U(<<"*", " ", "a", "\n", "*", ":", "b", "\n", "#", "c">>),
     U(<<"'", "'", "*", " ", "a", "\n", ":", "b">>),
     U(<<":", " ", "a", "\n", ":", ":", "b", "\n", "c">>),
     U(<<" ", "a", "\n", " ", "'", "'", "b", "\n", "c">>),
     U(<<"<", "g", "a", "l", "l", "e", "r", "y", ">", "\n", "a", "|", "b", "\n", "|", "c", "\n", "d", "\n",
         "<", "/", "g", "a", "l", "l", "e", "r", "y", ">">>),
     U(<<"<", "g", "a", "l", "l", "e", "r", "y", ">", "\n", " ", "|", "\n", "a">>),
     U(<<"<", "b", " ", "a", "=", "1", " ", "c", " ", "d", "=", "\"", "e", " ", "f", "\"", ">", "x", "<", "/", "b", ">">>),
     U(<<"<", "b", " ", "a", " ", "=", " ", ">", "x">>),
     U(<<"{", "|", " ", "a", "=", "b", " ", "c", "\n", "|", "-", "\n", "|", " ", "d", "=", "e", " ", "|", " ", "f",
         "\n", "|", "}">>),
     U(<<"{", "|", "\n", "<", "!", "-", "-", "a", "-", "-", ">", "\n", "|", "-", "\n", "<", "!", "-", "-", "b",
         "-", "-", ">", " ", "<", "!", "-", "-", "c", "\n", "|", " ", "x", "\n", "|", "}">>),
     U(<<"{", "|", "\n", "!", " ", "a", " ", "!", "!", " ", "b", "\n", "|", "-", "\n", "|", " ", "c", " ", "|", "|",
         " ", "d", "\n", "|", "}">>),
     U(<<"{", "|", "\n", "|", "}">>),
     U(<<"a", "'", "'", "b", "'", "'", "'", "\n", "[", "[", "c", "|", "d">>)}

\* The passes read backtrackingLimit alone of the options.
InitLoop ==
    /\ options \in {o \in OptionChoices : ~o.throwError /\ ~o.returnError}
    /\ inst = kFresh
    /\ pending \in {<<x>> : x \in LoopInputs \cup LaterInputs}
    /\ calls = 0
    /\ entry = kFresh
    /\ raised = "none"
    /\ returned = NotYet
    /\ thrown = "none"

NextLoop ==
    \/ NextPass \/ TablePass \/ TableRowPass \/ ListPass \/ IndentPass
    \/ PreformattedPass \/ GalleryPass \/ AttributesPass \/ EatCommentsPass

SpecLoop == InitLoop /\ [][NextLoop]_vars

----------------------------------------------------------------------------
(* Reading an AST *)

\* The fields of a node that hold node lists.
ListFields == {"content", "items", "title", "caption", "comments"}

\* The values directly inside a value.
Children(x) ==
    CASE x.k = "list" -> {x.v[i] : i \in DOMAIN x.v}
      [] x.k = "array" -> {x.props[i] : i \in DOMAIN x.props}
      [] x.k = "object" ->
            {x[f] : f \in DOMAIN x \cap ListFields}
            \cup (IF "parameters" \in DOMAIN x
                  THEN {x.parameters[key] : key \in DOMAIN x.parameters} ELSE {})
            \cup (IF "positionalParameters" \in DOMAIN x
                  THEN {x.positionalParameters} ELSE {})
      [] OTHER -> {}

\* Every value of an AST: the list itself, its nodes, and their lists.
RECURSIVE Within(_)
Within(x) == {x} \cup UNION {Within(c) : c \in Children(x)}

NodesOfType(ast, type) ==
    {x \in Within(ast) : x.k = "object" /\ "type" \in DOMAIN x /\ x.type = type}

Coalesced(v) ==
    \A i \in 1..(Len(v) - 1) : ~(v[i].k = "string" /\ v[i + 1].k = "string")

Done == calls > 0

----------------------------------------------------------------------------
(* Claims *)

\* C1: in the list parse returns and in every node list nested inside it
\* (content, parameter values, list items, table cells) no two adjacent
\* elements are both strings, strings made by entity replacement included.
C1_AdjacentStringsCoalesced ==
    (Done /\ returned.k = "list") =>
        \A x \in Within(returned) : x.k = "list" => Coalesced(x.v)

\* a&nbsp;a came back as the single string a, U+00A0, a.
C1_Witness ==
    /\ Done
    /\ inst.str = U(<<"a", "&", "n", "b", "s", "p", ";", "a">>)
    /\ returned = List(<<Str(<<CodeOf["a"], NBSP, CodeOf["a"]>>)>>)

\* C2: the counter a parse leaves behind is at least 0 and at most
\* backtrackingLimit + 1; it is above backtrackingLimit exactly when the
\* parse raised BacktrackingLimitExceeded, so a parse that returns an AST
\* has counter <= backtrackingLimit.
C2_CounterWithinLimit ==
    Done =>
        /\ inst.backtrackingCount \in 0..(options.backtrackingLimit + 1)
        /\ (inst.backtrackingCount > options.backtrackingLimit)
              <=> (raised = "BacktrackingLimitExceeded")
        /\ returned.k = "list" => inst.backtrackingCount <= options.backtrackingLimit

\* A parse stopped by the backtrack that took the counter past a limit that
\* earlier backtracks had already used up.
C2_Witness ==
    /\ Done
    /\ options.backtrackingLimit > 0
    /\ raised = "BacktrackingLimitExceeded"
    /\ inst.backtrackingCount = options.backtrackingLimit + 1

\* C3: when the try block raised an error, throwError makes parse throw
\* it, otherwise returnError makes parse return it, otherwise parse returns
\* null; when nothing was raised parse returns a node list, whatever the
\* options.
C3_OutcomeByOptions ==
    Done =>
        IF raised = "none" THEN returned.k = "list" /\ thrown = "none"
        ELSE IF options.throwError THEN returned = Thrown /\ thrown = raised
        ELSE IF options.returnError THEN returned = ErrorOf(raised) /\ thrown = "none"
        ELSE returned = Null /\ thrown = "none"

\* An error thrown to the caller although returnError was set as well.
C3_Witness ==
    /\ Done
    /\ options.throwError /\ options.returnError
    /\ raised # "none"
    /\ returned = Thrown /\ thrown = raised

\* C4: the only errors that escape parse are ParseFailure and
\* BacktrackingLimitExceeded.
C4_OnlyNamedFaults ==
    Done => raised \in {"none", "ParseFailure", "BacktrackingLimitExceeded"}

\* C5: a parse call on an instance that has parsed before returns, or
\* throws, what the same call returns or throws on a fresh instance.
C5_NoStateBetweenParses ==
    calls = 2 =>
        LET fresh == run(kFresh, options, inst.str)
            out == outcome(options, fresh)
        IN /\ returned = out
           /\ thrown = (IF out = Thrown THEN fresh.p.fault ELSE "none")

\* The second call found a used counter and a context stack left by an
\* error, and returned an AST.
C5_Witness ==
    /\ calls = 2
    /\ entry.backtrackingCount > 0
    /\ Len(entry.stack) > 0
    /\ returned.k = "list"
    /\ Len(returned.v) > 0

\* An input that is one link whose page text is made of letters, digits
\* and colons: the brackets, the page text, and after it the text last.
IsLinkInput(str, last) ==
    LET n == Len(str) - Len(last)
    IN /\ n >= 3
       /\ SubSeq(str, 1, 2) = U(<<"[", "[">>)
       /\ SubSeq(str, n + 1, Len(str)) = last
       /\ \A i \in 3..n : IsWordChar(str[i]) \/ str[i] = CodeOf[":"]
       /\ IsWordChar(str[n])

PageOf(str, last) == SubSeq(str, 3, Len(str) - Len(last))

HasColonPrefix(page) == page[1] = CodeOf[":"]

TargetOf(page) == IF HasColonPrefix(page) THEN Tail(page) ELSE page

RECURSIVE AfterFirstColon(_)
AfterFirstColon(s) ==
    IF \A i \in 1..Len(s) : s[i] # CodeOf[":"] THEN s
    ELSE IF s[1] = CodeOf[":"] THEN Tail(s)
    ELSE AfterFirstColon(Tail(s))

IsLinkNode(x) == x.k = "object" /\ "type" \in DOMAIN x /\ x.type = "link"

\* C6: the link [[page]] gives one link node whose `to` is the page text
\* without its leading colon; the node carries plain: true when the page
\* text began with a colon and has no field plain when it did not.
C6_ColonLinkIsPlain ==
    (Done /\ returned.k = "list" /\ IsLinkInput(inst.str, U(<<"]", "]">>))) =>
        LET page == PageOf(inst.str, U(<<"]", "]">>))
        IN /\ Len(returned.v) = 1
           /\ IsLinkNode(returned.v[1])
           /\ returned.v[1].to = Str(TargetOf(page))
           /\ ("plain" \in DOMAIN returned.v[1]) <=> HasColonPrefix(page)
           /\ HasColonPrefix(page) => returned.v[1].plain = True

\* C7: the link [[page|]] with an empty content segment gives one link
\* node whose content is the text after the first colon of its target.
C7_PipeTrick ==
    (Done /\ returned.k = "list" /\ IsLinkInput(inst.str, U(<<"|", "]", "]">>))) =>
        LET page == PageOf(inst.str, U(<<"|", "]", "]">>))
        IN /\ Len(returned.v) = 1
           /\ IsLinkNode(returned.v[1])
           /\ returned.v[1].content = List(<<Str(AfterFirstColon(TargetOf(page)))>>)

\* C8: no key of the parameters of a link or template contains '|': a
\* key is taken from one '|'-separated segment only.
C8_KeyWithinOneSegment ==
    (Done /\ returned.k = "list") =>
        \A x \in Within(returned) :
            (x.k = "object" /\ "parameters" \in DOMAIN x) =>
                \A key \in DOMAIN x.parameters :
                    \A i \in 1..Len(key) : key[i] # CodeOf["|"]

\* C9: a parameter whose key is an integer is not among the named
\* parameters, and every value held by positionalParameters sits at an
\* index >= 0.
C9_PositionalIndexes ==
    (Done /\ returned.k = "list") =>
        \A x \in Within(returned) :
            /\ (x.k = "object" /\ "parameters" \in DOMAIN x) =>
                    \A key \in DOMAIN x.parameters : ToNumber(key).kind = "NaN"
            /\ (x.k = "array") => \A i \in DOMAIN x.props : i >= 0

\* C10: every heading node has a level between 1 and 6.
C10_HeadingLevels ==
    (Done /\ returned.k = "list") =>
        \A x \in NodesOfType(returned, "heading") : x.level \in 1..6

\* The node lists an AST holds under the key content, and the AST itself.
ContentLists(ast) ==
    {ast} \cup {x.content : x \in {y \in Within(ast) : y.k = "object" /\ "content" \in DOMAIN y
                                                       /\ y.content.k = "list"}}

\* C11: every string that is an element of the returned list or of the
\* content list of a node in it has at least one character.
C11_NoEmptyString ==
    (Done /\ returned.k = "list") =>
        \A l \in ContentLists(returned) :
            \A i \in DOMAIN l.v : l.v[i].k = "string" => Len(l.v[i].s) > 0

\* The text s is in str from index i on.
StartsAt(str, i, s) == i + Len(s) - 1 <= Len(str) /\ SubSeq(str, i, i + Len(s) - 1) = s

Contains(str, s) == \E i \in 1..Len(str) : StartsAt(str, i, s)

\* The terminators of an enclosing construct at which the content of a tag ends.
kOuterTerminators == {U(<<"\n", "|">>), U(<<"\n", "!">>), U(<<"]", "]">>), U(<<"}", "}">>)}

\* An input that opens the tag b at its start and holds no closing tag.
IsUnclosedTagInput(str) ==
    StartsAt(str, 1, U(<<"<", "b", ">">>)) /\ ~Contains(str, U(<<"<", "/">>))

\* The index of the first outer terminator behind the opening tag, or the
\* index behind the input when it holds none.
TerminatorIndex(str) ==
    Min({i \in 4..Len(str) : \E s \in kOuterTerminators : StartsAt(str, i, s)}
        \cup {Len(str) + 1})

IsTagNode(x, name) ==
    x.k = "object" /\ "type" \in DOMAIN x /\ x.type = "tag" /\ x.name = Str(name)

kVerbatimTypes == {"nowiki", "pre", "source", "syntaxhighlight", "code", "comment"}

\* C13: the content of every nowiki, pre, source, syntaxhighlight, code and
\* comment node of the AST is a list of no more than one element, and that
\* element is a string.
C13_VerbatimContent ==
    (Done /\ returned.k = "list") =>
        \A x \in Within(returned) :
            (x.k = "object" /\ "type" \in DOMAIN x /\ x.type \in kVerbatimTypes
                /\ "content" \in DOMAIN x) =>
                /\ x.content.k = "list"
                /\ Len(x.content.v) <= 1
                /\ \A i \in DOMAIN x.content.v : x.content.v[i].k = "string"

\* <code>''a''</code> gave one code node whose content is the text ''a''.
C13_Witness ==
    /\ Done
    /\ inst.str = U(<<"<", "c", "o", "d", "e", ">", "'", "'", "a", "'", "'", "<", "/", "c", "o", "d", "e", ">">>)
    /\ returned.k = "list"
    /\ Len(returned.v) = 1
    /\ returned.v[1].type = "code"
    /\ returned.v[1].content = List(<<Str(U(<<"'", "'", "a", "'", "'">>))>>)

\* The index at which s is first found in str, or the index behind str.
FirstIndex(str, s) == Min({i \in 1..Len(str) : StartsAt(str, i, s)} \cup {Len(str) + 1})

\* The text between the brackets of the link an input starts with.
Inner(str) == SubSeq(str, 3, FirstIndex(str, U(<<"]", "]">>)) - 1)

\* The text behind the closing brackets of the link an input starts with.
Behind(str) == SubSeq(str, FirstIndex(str, U(<<"]", "]">>)) + 2, Len(str))

\* An input that starts with a closed link of word characters, with no
\* more than one '|' between its page and its label.
IsTrailInput(str) ==
    /\ StartsAt(str, 1, U(<<"[", "[">>))
    /\ FirstIndex(str, U(<<"]", "]">>)) <= Len(str)
    /\ Len(Inner(str)) > 0
    /\ \A i \in DOMAIN Inner(str) : IsWordChar(Inner(str)[i]) \/ Inner(str)[i] = CodeOf["|"]
    /\ IsWordChar(Inner(str)[1]) /\ IsWordChar(Inner(str)[Len(Inner(str))])
    /\ Cardinality({i \in DOMAIN Inner(str) : Inner(str)[i] = CodeOf["|"]}) <= 1

\* The label of the link: the text behind '|', or the page.
LabelOf(inner) ==
    IF Contains(inner, U(<<"|">>)) THEN SubSeq(inner, FirstIndex(inner, U(<<"|">>)) + 1, Len(inner))
    ELSE inner

\* The longest run of word characters s starts with.
RECURSIVE WordPrefix(_)
WordPrefix(s) ==
    IF Len(s) > 0 /\ IsWordChar(s[1]) THEN <<s[1]>> \o WordPrefix(Tail(s)) ELSE <<>>

AfterTrail(str) == SubSeq(Behind(str), Len(WordPrefix(Behind(str))) + 1, Len(Behind(str)))

\* Text in which no production starts: word characters, spaces, '-'.
IsPlainText(s) ==
    \A i \in DOMAIN s : IsWordChar(s[i]) \/ s[i] = CodeOf[" "] \/ s[i] = CodeOf["-"]

\* C14: for a link of word characters, the content of the link node is its
\* label with the longest run of word characters behind ']]' appended, the
\* node is the whole result when the input ends with that run, and plain
\* text behind the run comes back as the one string behind the node,
\* without the run.
C14_LinkTrail ==
    (Done /\ raised = "none" /\ IsTrailInput(inst.str)) =>
        /\ returned.k = "list"
        /\ Len(returned.v) >= 1
        /\ IsLinkNode(returned.v[1])
        /\ returned.v[1].content =
              List(<<Str(LabelOf(Inner(inst.str)) \o WordPrefix(Behind(inst.str)))>>)
        /\ Len(AfterTrail(inst.str)) = 0 => Len(returned.v) = 1
        /\ (Len(AfterTrail(inst.str)) > 0 /\ IsPlainText(AfterTrail(inst.str))) =>
              returned.v = <<returned.v[1], Str(AfterTrail(inst.str))>>

\* [[a|b]]s_1-s gave a link with content bs_1 and then the text -s.
C14_Witness ==
    /\ Done
    /\ inst.str = U(<<"[", "[", "a", "|", "b", "]", "]", "s", "_", "1", "-", "s">>)
    /\ returned.k = "list"
    /\ Len(returned.v) = 2
    /\ returned.v[1].content = List(<<Str(U(<<"b", "s", "_", "1">>))>>)
    /\ returned.v[2] = Str(U(<<"-", "s">>))

\* The digits of a numeric entity: the text between '&#' or '&#x' and ';'.
EntityDigits(str) ==
    IF StartsAt(str, 3, U(<<"x">>)) THEN SubSeq(str, 4, Len(str) - 1)
    ELSE SubSeq(str, 3, Len(str) - 1)

EntityRadix(str) == IF StartsAt(str, 3, U(<<"x">>)) THEN 16 ELSE 10

\* An input that is one numeric entity, decimal or hexadecimal.
IsEntityInput(str) ==
    /\ StartsAt(str, 1, U(<<"&", "#">>))
    /\ str[Len(str)] = CodeOf[";"]
    /\ Len(EntityDigits(str)) > 0
    /\ \A i \in DOMAIN EntityDigits(str) : DigitValue(EntityDigits(str)[i]) < EntityRadix(str)

\* The number a run of digits writes.
RECURSIVE NumberOf(_, _)
NumberOf(digits, radix) ==
    IF Len(digits) = 0 THEN 0
    ELSE NumberOf(SubSeq(digits, 1, Len(digits) - 1), radix) * radix
         + DigitValue(digits[Len(digits)])

\* C15: an input that is one numeric entity comes back as one string of one
\* character, whose code is the number the digits write.
C15_NumericEntity ==
    (Done /\ returned.k = "list" /\ IsEntityInput(inst.str)) =>
        returned = List(<<Str(<<NumberOf(EntityDigits(inst.str), EntityRadix(inst.str))>>)>>)

\* The start literals of the grammar table and of its groups.
StartLiterals ==
    {grammar[i].start : i \in DOMAIN grammar}
    \cup {htmlEntities[i].start : i \in DOMAIN htmlEntities}
    \cup {tags[i].start : i \in DOMAIN tags}

\* C16: every start literal of the grammar is in lower case, and an input
\* that holds __TOC__ or __NOTOC__ gives a toc or a notoc node.
C16_MagicWords ==
    Done =>
        /\ \A s \in StartLiterals : s = strToLowerCase(s)
        /\ (returned.k = "list" /\ Contains(inst.str, U(<<"_", "_", "T", "O", "C", "_", "_">>)))
              => NodesOfType(returned, "toc") # {}
        /\ (returned.k = "list"
              /\ Contains(inst.str, U(<<"_", "_", "N", "O", "T", "O", "C", "_", "_">>)))
              => NodesOfType(returned, "notoc") # {}

\* An AST whose first string starts with the letter I, with U+0130 in the
\* place of that letter.
Dotted(ast) ==
    IF ast.k = "list" /\ Len(ast.v) > 0 /\ ast.v[1].k = "string" /\ ast.v[1].s[1] = CodeOf["I"]
    THEN List(<<Str(<<CAPITAL_I_DOT>> \o Tail(ast.v[1].s))>> \o Tail(ast.v))
    ELSE ast

\* C17: the lower case view has one entry for each unit of the input, and
\* an input that starts with U+0130 is parsed as the same input with the
\* letter I at the front is: the same nodes at the same places with the
\* same text, the same cursor and the same counter.
C17_LowercaseAligned ==
    Done =>
        /\ Len(inst.lowercaseStr) = Len(inst.str)
        /\ (Len(inst.str) > 0 /\ inst.str[1] = CAPITAL_I_DOT) =>
              LET plain == run(kFresh, options, <<CodeOf["I"]>> \o Tail(inst.str))
              IN /\ returned = Dotted(outcome(options, plain))
                 /\ raised = plain.p.fault
                 /\ inst.pos = plain.p.pos
                 /\ inst.backtrackingCount = plain.p.backtrackingCount

\* U+0130 in front of {{t|2=b|a=1|1=a}} came back as a string in front of
\* the template node with its three parameters.
C17_Witness ==
    /\ Done
    /\ inst.str = <<CAPITAL_I_DOT>> \o U(<<"{", "{", "t", "|", "2", "=", "b", "|", "a", "=", "1", "|", "1", "=", "a", "}", "}">>)
    /\ Len(inst.lowercaseStr) = Len(inst.str)
    /\ inst.lowercaseStr[1] = <<CodeOf["i"], COMBINING_DOT>>
    /\ returned.k = "list"
    /\ Len(returned.v) = 2
    /\ returned.v[1] = Str(<<CAPITAL_I_DOT>>)
    /\ returned.v[2].type = "template"
    /\ returned.v[2].positionalParameters.length = 2

\* C18: when the AST of a non-empty input holds no node, and the input
\* holds neither an entity nor a nowiki tag (the productions that give
\* text or nothing in place of a node), the AST is the input as one string.
C18_InputKept ==
    (Done /\ returned.k = "list" /\ Len(inst.str) > 0
        /\ ~Contains(inst.str, U(<<"&">>))
        /\ ~Contains(inst.str, U(<<"<", "n", "o", "w", "i", "k", "i">>))
        /\ \A i \in DOMAIN returned.v : returned.v[i].k = "string") =>
        returned = List(<<Str(inst.str)>>)

\* C19: a call of node() that returns null, false or another falsy value
\* leaves the cursor, offset and line number, where it was at the call.
C19_NodeRewinds ==
    (Done /\ raised = "none" /\ ~Truthy(returned)) => inst.pos = entry.pos

\* C20: a call of next that returns null leaves the cursor and the
\* predicate stack as they were at the call and the counter higher than it
\* was; a call that returns a list leaves the predicate stack as it was.
C20_NextRestores ==
    (Done /\ raised = "none") =>
        /\ returned = Null =>
              /\ inst.pos = entry.pos
              /\ inst.backtrackOn = entry.backtrackOn
              /\ inst.backtrackingCount > entry.backtrackingCount
        /\ returned.k = "list" => inst.backtrackOn = entry.backtrackOn

\* In the input of eight quotes and a, the call of next for the bold text
\* behind the first five quotes, made with the predicate of the enclosing
\* next on the stack, pushed its own, ran into the end of the line, and
\* returned null with one predicate on the stack and the cursor back.
C20_Witness ==
    /\ Done
    /\ inst.str = U(<<"'", "'", "'", "'", "'", "'", "'", "'", "a">>)
    /\ raised = "none"
    /\ returned = Null
    /\ Len(entry.backtrackOn) = 1
    /\ entry.pos.offset > 0
    /\ inst.backtrackOn = entry.backtrackOn
    /\ inst.pos = entry.pos
    /\ inst.backtrackingCount > entry.backtrackingCount

\* The call of next that the state holds the outcome of: the one for the
\* descriptor at the start of the input, or the one inside it.
NextCallOf ==
    IF Len(entry.stack) = 1 THEN outerNext(inst, options, inst.str)
    ELSE innerNext(outerNext(inst, options, inst.str))

\* The instance at the return with the cursor moved to offset k.
CursorAt(k) == [inst EXCEPT !.pos = [offset |-> k, lineNumber |-> 1]]

\* The index of the first quote behind the two that open the input.
ClosingQuote(str) == 2 + FirstIndex(SubSeq(str, 3, Len(str)), U(<<"'">>))

\* An input that opens italics, goes on with letters and spaces, and then
\* has a run of exactly three quotes with no further quote on that line.
IsApostropheInput(str) ==
    /\ StartsAt(str, 1, U(<<"'", "'">>))
    /\ ClosingQuote(str) > 3
    /\ \A i \in 3..(ClosingQuote(str) - 1) : IsLetter(str[i]) \/ str[i] = CodeOf[" "]
    /\ StartsAt(str, ClosingQuote(str), U(<<"'", "'", "'">>))
    /\ \A i \in (ClosingQuote(str) + 3)..Len(str) :
          str[i] = CodeOf["'"] => \E n \in (ClosingQuote(str) + 3)..i : str[n] = 10

\* C21: a call of next whose only way out with a list is an end string
\* returns with the cursor straight behind an end string, at whose first
\* unit no notEnd string matches; for italics closed by a run of three
\* quotes the call returns the text with the first quote of the run as its
\* content, the cursor behind the run.
C21_EndTaken ==
    (Done /\ raised = "none" /\ returned.k = "list") =>
        LET o == nextOptions(NextCallOf.d)
        IN  /\ (Len(o.end) > 0 /\ ~o.endAtEos /\ Len(o.endBefore) = 0) =>
                  \E j \in 1..Len(o.end) :
                      /\ inst.pos.offset - Len(o.end[j]) >= entry.pos.offset
                      /\ startsWith(CursorAt(inst.pos.offset - Len(o.end[j])), o.end[j])
                      /\ ~startsWithAny(CursorAt(inst.pos.offset - Len(o.end[j])), o.notEnd)
            /\ (Len(entry.stack) = 1 /\ IsApostropheInput(inst.str)) =>
                  /\ returned = List(<<Str(SubSeq(inst.str, 3, ClosingQuote(inst.str)))>>)
                  /\ inst.pos.offset = ClosingQuote(inst.str) + 2

\* The call of next for the italics of ''a b''' c came to the run of three
\* quotes, where end and notEnd both match, went on, and closed at the last
\* two quotes with the content "a b'".
C21_Witness ==
    /\ Done
    /\ raised = "none"
    /\ Len(entry.stack) = 1
    /\ inst.str = U(<<"'", "'", "a", " ", "b", "'", "'", "'", " ", "c">>)
    /\ returned = List(<<Str(U(<<"a", " ", "b", "'">>))>>)
    /\ inst.pos.offset = 8

\* C22: a pass through the body of the loop of next, table, tableRow, list,
\* indent, preformatted, gallery, attributes or eatComments that neither
\* throws nor leaves the loop ends with the cursor at a higher offset than
\* it started with, so the loop makes at most as many passes as there are
\* units left; a pass of next that fails puts the cursor back where the call
\* started and adds one to the backtracking counter.
C22_LoopsAdvance ==
    (Done /\ raised = "none") =>
        /\ returned.more => inst.pos.offset > entry.pos.offset
        /\ (returned.loop = "next" /\ returned.failed) =>
              /\ inst.pos = returned.from
              /\ inst.backtrackingCount = entry.backtrackingCount + 1

\* The first pass of the loop of list over '* a', '*:b', '#c' started at
\* the first '*', read the line, and left the cursor at the second '*'
\* with the loop going on.
C22_Witness ==
    /\ Done
    /\ raised = "none"
    /\ inst.str = U(<<"*", " ", "a", "\n", "*", ":", "b", "\n", "#", "c">>)
    /\ returned.loop = "list"
    /\ returned.more
    /\ entry.pos.offset = 0
    /\ inst.pos = [offset |-> 4, lineNumber |-> 2]

\* No numeric literal outside the decimal integers reaches ToNumber.
NumbersModelled == raised # "Unmodelled"

====
